---- MODULE Spec2Model ----
(***************************************************************************)
(* Backup / restore engine of memoria-neo4j                                *)
(* (backend/neo4j_backup_restore.py, class Neo4jBackupRestore).            *)
(*                                                                         *)
(* Strings are sequences of one-character strings, so that the regular     *)
(* expression, the substitution and the prefix test of the code are        *)
(* computed character by character.  A parsed JSON value is a record with  *)
(* a type tag t.  The graph database is the set of its nodes and the set   *)
(* of its relationships; every statement sent to it is one step.           *)
(***************************************************************************)
EXTENDS Integers, Sequences, FiniteSets, TLC

\* ------------------------------------------------------------------ bounds
\* Largest number of node records / relationship records of an archive.
MaxNodes == 2
MaxRels == 2
\* Largest number of database statements that fail during one run.
MaxDbFailures == 2
\* batch_size of the code is 500; the model scales it down so that a group
\* of nodes splits into several batches.
BatchSize == 2

\* ----------------------------------------------------------------- strings
\* [a-zA-Z]: the letters that occur in the model's strings.
Letters == {"A", "B", "N", "o", "d", "e", "R", "E", "L", "T", "D", "O"}
\* [0-9]
Digits == {"1"}
\* [a-zA-Z0-9_]
IdentChars == Letters \cup Digits \cup {"_"}
\* Code point of a character (the order Python's sorted() uses).
Ord(c) ==
  CASE c = "\n" -> 10 [] c = " " -> 32 [] c = "1" -> 49
    [] c = "A" -> 65 [] c = "B" -> 66 [] c = "D" -> 68 [] c = "E" -> 69
    [] c = "L" -> 76 [] c = "N" -> 78 [] c = "O" -> 79 [] c = "R" -> 82
    [] c = "T" -> 84 [] c = "_" -> 95 [] c = "d" -> 100 [] c = "e" -> 101
    [] c = "o" -> 111 [] OTHER -> 127

\* A label or type of the archive that is not a JSON string (a number).
NonStr == <<"#int">>
\* None (a missing or null "id") is modelled by -1, outside the identifiers.
None == -1

\* The identifier grammar of the specification: non-empty, first character a
\* letter or underscore, the others letters, digits or underscores.
MatchesGrammar(s) ==
  /\ Len(s) >= 1
  /\ s[1] \in Letters \cup {"_"}
  /\ \A i \in 2..Len(s) : s[i] \in IdentChars

\* VALID_LABEL_PATTERN.match(s) with r'^[a-zA-Z_][a-zA-Z0-9_]*$': the match
\* covers s[1..k]; Python's '$' matches at the end of the string and also just
\* before a newline that ends the string.
PatternMatch(s) ==
  \E k \in 1..Len(s) :
    /\ s[1] \in Letters \cup {"_"}
    /\ \A i \in 2..k : s[i] \in IdentChars
    /\ \/ k = Len(s)
       \/ k = Len(s) - 1 /\ s[Len(s)] = "\n"

validate_cypher_label(label) == PatternMatch(label)

validate_cypher_rel_type(rel_type) == PatternMatch(rel_type)

NodeStr == <<"N", "o", "d", "e">>
RelatedTo == <<"R", "E", "L", "A", "T", "E", "D", "_", "T", "O">>

sanitize_label(label) ==
  LET sub == [i \in 1..Len(label) |->
                IF label[i] \in IdentChars THEN label[i] ELSE "_"]
      sanitized == IF Len(sub) > 0 /\ sub[1] \in Digits
                   THEN <<"_">> \o sub ELSE sub
  IN  IF sanitized = <<>> THEN NodeStr ELSE sanitized

\* a < b in Python's string order.
StrLess(a, b) ==
  \E k \in 1..(Len(b)) :
    /\ \A i \in 1..(k - 1) : i <= Len(a) /\ a[i] = b[i]
    /\ \/ k = Len(a) + 1
       \/ k <= Len(a) /\ Ord(a[k]) < Ord(b[k])

\* sorted(seq) for a list of strings (insertion sort; equal strings are
\* indistinguishable, so stability does not show).
RECURSIVE sorted(_)
Insert(x, s) ==
  LET below == {i \in 1..Len(s) : ~StrLess(x, s[i])}
      k == Cardinality(below)
  IN  SubSeq(s, 1, k) \o <<x>> \o SubSeq(s, k + 1, Len(s))
sorted(seq) ==
  IF seq = <<>> THEN <<>>
  ELSE Insert(seq[Len(seq)], sorted(SubSeq(seq, 1, Len(seq) - 1)))

\* ------------------------------------------------------- parsed JSON values
\* The keys _validate_backup_schema requires.
required_keys == <<"metadata", "nodes", "relations">>

\* A value that is not a list / not an object (a number).
NotAList == [t |-> "other", v |-> <<>>]
ListOf(seq) == [t |-> "list", v |-> seq]

\* A node record of an archive: {"id": id, "labels": labels, "properties": props};
\* has is the set of keys among "labels" and "properties" that are present.
NodeRec(id, labels, props) ==
  [t |-> "dict", id |-> id, has |-> {"labels", "properties"},
   labels |-> labels, props |-> props]
\* An element of "nodes" that is not an object.
NodeOther == [t |-> "other", id |-> None, has |-> {}, labels |-> <<>>, props |-> 0]

\* A relationship record: {"source": s, "target": t, "type": type, "properties": props}.
RelRec(source, target, type, props) ==
  [t |-> "dict", source |-> source, target |-> target, type |-> type, props |-> props]

NoStats == [total_nodes |-> 0, total_relations |-> 0, labels |-> <<>>]

\* The parsed top level.  t is its JSON type; keys is, for an object, the set of
\* its keys, for a list the set of required key names that are elements of it,
\* for a string the set of required key names that occur in it as substrings
\* (what Python's `key in backup_data` tests).
Doc(t, keys, metadata, nodes, relations, stats) ==
  [t |-> t, keys |-> keys, metadata |-> metadata, nodes |-> nodes,
   relations |-> relations, stats |-> stats]

\* The archive create_backup writes (backup_data, lines 239-254).
Archive(ns, rs, stats) ==
  Doc("dict", {"metadata", "nodes", "relations"}, "dict", ListOf(ns), ListOf(rs), stats)

\* ------------------------------------------------------------------- files
\* The content of a file: t = "json" (text that parses to doc), "garbage"
\* (neither JSON nor a zip container), "zip" (a container with members) or
\* "sha" (a hash sidecar).
JsonText(doc) == [t |-> "json", doc |-> doc, members |-> <<>>, hash |-> <<>>]
Garbage == [t |-> "garbage", doc |-> <<>>, members |-> <<>>, hash |-> <<>>]
ZipOf(members) == [t |-> "zip", doc |-> <<>>, members |-> members, hash |-> <<>>]
\* The content of a zip member whose compressed bytes are damaged: the
\* container opens and lists it, decompressing it raises zlib.error.
Damaged == [t |-> "damaged", doc |-> <<>>, members |-> <<>>, hash |-> <<>>]
ShaLine(hash, name) == [t |-> "sha", doc |-> <<>>, members |-> <<>>, hash |-> <<hash, name>>]

\* hashlib.sha256(bytes).hexdigest(): collision-free on the model's contents.
Sha256(content) == <<"sha256", content>>

\* A file: its suffix and its content.
File(suffix, content) == [suffix |-> suffix, c |-> content]
\* No file at that path.
NoFile == File("", Garbage)

\* A member of a zip container: its declared name, as the list of its path
\* components (abs: the name starts with "/"), and its content.
Member(abs, comps, content) == [abs |-> abs, comps |-> comps, c |-> content]

\* ------------------------------------------------------------------- state
VARIABLES
  fs,              \* the files: path -> File
  backup_file,     \* the argument of restore_backup
  temp_dirs,       \* self._temp_dirs: the extraction directories created
  tmp,             \* the extraction directory: relative path -> content
  json_file,       \* the content of the file _extract_backup_safe returned
  backup_data,     \* the parsed archive
  pc,              \* position of restore_backup
  result,          \* what restore_backup returned ("none", "true", "false" or
                   \* "raised": an exception left it) and the message it printed
  db_nodes,        \* the target graph: its nodes
  db_rels,         \* the target graph: its relationships
  next_id,         \* the database's next node identifier
  id_mapping,      \* old identifier -> new identifier
  nodes_by_labels, \* the groups of node items, in insertion order
  rels_by_type,    \* the groups of relationship items, in insertion order
  grp,             \* index of the group being processed
  off,             \* i: offset of the batch in its group
  item,            \* index of the item of the batch in the per-item fallback
  restored_rels,   \* the counter of _restore_relations_batch
  printed,         \* the counts the run printed
  spliced,         \* the labels and types that occurred in the text of a statement sent
  statements,      \* the write statements sent to the database, in order
  fails,           \* number of database statements that failed
  target0,         \* the target graph when restore_backup was called
  log,             \* BACKUP_LOG.json: the ledger
  source,          \* the graph when create_backup was called
  created,         \* what create_backup returned: "" (nothing yet), "None" or "files"
  stdin,           \* the standard input: a terminal or not, and what comes from it
  engine,          \* the engine instance: its driver and how its construction ended
  asked,           \* the confirmation prompt was shown
  disk_dirs,       \* the extraction directories that exist on disk
  call,            \* a call of a function of the module: its arguments and what it gave
  procs            \* the invocations that run _update_log side by side: their
                   \* position and the log_data each has read

vars ==
  <<fs, backup_file, temp_dirs, tmp, json_file, backup_data, pc, result, db_nodes,
    db_rels, next_id, id_mapping, nodes_by_labels, rels_by_type, grp, off, item,
    restored_rels, printed, spliced, statements, fails, target0, log, source, created,
    stdin, engine, asked, disk_dirs, call, procs>>

\* What restore_backup neither reads nor writes.
otherVars == <<target0, log, source, created, stdin, engine>>

\* ------------------------------------------------- _extract_backup_safe
\* Path components are strings too; ".." is the parent directory and the last
\* character ".json" of a component stands for that extension.
DotDot == <<"..">>
\* tempfile.mkdtemp(prefix="neo4j_restore_"): the directory /t/d.
temp_dir == << <<"t">>, <<"d">> >>

\* str(path): the components with "/" before each.
RECURSIVE PathStr(_)
PathStr(comps) ==
  IF comps = <<>> THEN <<>>
  ELSE <<"/">> \o Head(comps) \o PathStr(Tail(comps))

\* a.startswith(b)
StartsWith(a, b) == Len(b) <= Len(a) /\ SubSeq(a, 1, Len(b)) = b

\* (temp_dir / member).resolve(): ".." removes the component before it.
RECURSIVE Resolve(_, _)
Resolve(stack, comps) ==
  IF comps = <<>> THEN stack
  ELSE LET c == Head(comps)
           st == IF c = DotDot
                 THEN (IF stack = <<>> THEN <<>> ELSE SubSeq(stack, 1, Len(stack) - 1))
                 ELSE Append(stack, c)
       IN  Resolve(st, Tail(comps))

\* member.endswith('.json')
EndsWithJson(comps) ==
  /\ comps # <<>>
  /\ comps[Len(comps)] # <<>>
  /\ comps[Len(comps)][Len(comps[Len(comps)])] = ".json"

\* Lines 460-476: the member is not skipped.
PassesPathCheck(m) ==
  /\ ~m.abs
  /\ LET target_path == Resolve(temp_dir, m.comps)
     IN  StartsWith(PathStr(target_path), PathStr(temp_dir))

\* zipfile.ZipFile.extract(member, temp_dir): the library drops the "..", "."
\* and empty components of the name and writes below temp_dir; the result is
\* the path relative to temp_dir.
ExtractTarget(m) == SelectSeq(m.comps, LAMBDA c : c # DotDot)

\* Lines 476-478: the member is extracted.
Extracted(m) == PassesPathCheck(m) /\ EndsWithJson(m.comps)

\* zf.extract raises zlib.error on the first extracted member whose bytes are
\* damaged; the handler of line 490 takes zipfile.BadZipFile only.
ExtractRaises(members) ==
  \E k \in 1..Len(members) : Extracted(members[k]) /\ members[k].c.t = "damaged"

\* Lines 458-481: the extraction directory after the loop over zf.namelist(),
\* or when zf.extract raised (the file it was writing stays, incomplete).
\* An entry of the directory is [c: content, src: index of the member it came from].
RECURSIVE ExtractMembers(_, _, _)
ExtractMembers(members, k, dir) ==
  IF k > Len(members) THEN dir
  ELSE LET m == members[k]
           p == ExtractTarget(m)
           e == [c |-> IF m.c.t = "damaged" THEN Garbage ELSE m.c, src |-> k]
           nxt == IF Extracted(m)
                  THEN [q \in DOMAIN dir \cup {p} |-> IF q = p THEN e ELSE dir[q]]
                  ELSE dir
       IN  IF Extracted(m) /\ m.c.t = "damaged" THEN nxt
           ELSE ExtractMembers(members, k + 1, nxt)

EmptyDir == [q \in {} |-> [c |-> Garbage, src |-> 0]]

\* temp_dir.glob("*.json"): the entries directly in the directory.
GlobJson(dir) == {q \in DOMAIN dir : Len(q) = 1 /\ EndsWithJson(q)}

\* The schema check that takes every parsed value.
accept_any_schema(d) == "true"

\* ------------------------------------------------ _validate_backup_schema
\* "true", "false" (a message was printed and False returned) or "raise"
\* (a TypeError leaves the method).
_validate_backup_schema(d) ==
  \* `key not in backup_data` on a number, null or boolean: TypeError
  IF d.t \notin {"dict", "list", "str"} THEN "raise"
  ELSE IF \E k \in 1..Len(required_keys) : required_keys[k] \notin d.keys THEN "false"
  \* backup_data["metadata"] on a list or a string: TypeError
  ELSE IF d.t # "dict" THEN "raise"
  ELSE IF d.metadata # "dict" THEN "false"
  ELSE IF d.nodes.t # "list" THEN "false"
  ELSE IF d.relations.t # "list" THEN "false"
  ELSE IF d.nodes.v # <<>> /\ d.nodes.v[1].t # "dict" THEN "false"
  ELSE IF d.nodes.v # <<>> /\ d.nodes.v[1].has = {} THEN "false"
  ELSE "true"

\* ---------------------------------------------------- _restore_nodes_batch
\* Lines 587-593: the label used for one raw label.
safe_label(label) ==
  IF validate_cypher_label(label) THEN label ELSE sanitize_label(label)

\* Lines 584-595: the key of a node's group.  The code joins the sorted labels
\* with ":"; no safe label holds a ":", so the list of labels is that key.
labels_key(node) ==
  LET raw_labels == IF "labels" \in node.has THEN node.labels ELSE <<>>
      safe_labels == [k \in 1..Len(raw_labels) |-> safe_label(raw_labels[k])]
  IN  IF safe_labels = <<>> THEN <<NodeStr>> ELSE sorted(safe_labels)

\* node.get(...) on an element that is no object raises AttributeError, the
\* pattern match on a label that is no string raises TypeError.
NodeRaises(node) ==
  \/ node.t # "dict"
  \/ "labels" \in node.has /\ \E k \in 1..Len(node.labels) : node.labels[k] = NonStr

\* Lines 583-601: nodes_by_labels, the groups in the order of their first node.
RECURSIVE GroupNodes(_, _, _)
GroupNodes(nodes, k, groups) ==
  IF k > Len(nodes) THEN groups
  ELSE LET node == nodes[k]
           key == labels_key(node)
           it == [old_id |-> node.id,
                  props |-> IF "properties" \in node.has THEN node.props ELSE 0]
           at == {x \in 1..Len(groups) : groups[x].key = key}
           nxt == IF at = {}
                  THEN Append(groups, [key |-> key, items |-> <<it>>])
                  ELSE [groups EXCEPT ![CHOOSE x \in at : TRUE].items = Append(@, it)]
       IN  GroupNodes(nodes, k + 1, nxt)

\* A fallback that goes through the batch twice.
fallback_twice(batch) == batch \o batch

\* A fallback that stops after the first item of the batch.
fallback_first_only(batch) == SubSeq(batch, 1, 1)

\* Lines 634 and 720: the fallback loops over every item of the batch whose
\* statement failed.
fallback_items(batch) == batch

\* label_nodes[i:i + batch_size]
BatchOf(items, i) ==
  SubSeq(items, i + 1, IF i + BatchSize < Len(items) THEN i + BatchSize ELSE Len(items))

\* The label the database reads from the text spliced after "n:" : a newline
\* that ends the text is white space of the query.
CypherName(s) ==
  IF Len(s) >= 1 /\ s[Len(s)] = "\n" THEN SubSeq(s, 1, Len(s) - 1) ELSE s

\* The identifiers paired with the items in the reverse order.
RECURSIVE MapIdsReversed(_, _, _, _)
MapIdsReversed(mapping, batch, k, first) ==
  IF k > Len(batch) THEN mapping
  ELSE LET old_id == batch[k].old_id
           new_id == first + Len(batch) - k
           nxt == IF old_id # None
                  THEN [o \in DOMAIN mapping \cup {old_id} |->
                          IF o = old_id THEN new_id ELSE mapping[o]]
                  ELSE mapping
       IN  MapIdsReversed(nxt, batch, k + 1, first)

\* A map that numbers the new nodes from 0, whatever the database returned.
RECURSIVE MapIdsFromZero(_, _, _, _)
MapIdsFromZero(mapping, batch, k, first) ==
  IF k > Len(batch) THEN mapping
  ELSE LET old_id == batch[k].old_id
           new_id == k - 1
           nxt == IF old_id # None
                  THEN [o \in DOMAIN mapping \cup {old_id} |->
                          IF o = old_id THEN new_id ELSE mapping[o]]
                  ELSE mapping
       IN  MapIdsFromZero(nxt, batch, k + 1, first)

\* Lines 626-628: zip(batch_old_ids, new_ids) into id_mapping; new_ids[k] is
\* first + k - 1.
RECURSIVE MapIds(_, _, _, _)
MapIds(mapping, batch, k, first) ==
  IF k > Len(batch) THEN mapping
  ELSE LET old_id == batch[k].old_id
           new_id == first + k - 1
           nxt == IF old_id # None
                  THEN [o \in DOMAIN mapping \cup {old_id} |->
                          IF o = old_id THEN new_id ELSE mapping[o]]
                  ELSE mapping
       IN  MapIds(nxt, batch, k + 1, first)

\* The nodes one UNWIND ... CREATE statement makes: one per item, in the order
\* of the items, with consecutive new identifiers.
CreatedNodes(key, batch, first) ==
  {[id |-> first + k - 1, labels |-> {CypherName(key[x]) : x \in 1..Len(key)},
    props |-> batch[k].props, origin |-> "restore"] : k \in 1..Len(batch)}

EmptyMap == [o \in {} |-> 0]

\* ------------------------------------------------ _restore_relations_batch
\* Line 672
Dangling(rel, mapping) ==
  rel.source \notin DOMAIN mapping \/ rel.target \notin DOMAIN mapping

\* Lines 675-682
safe_rel_type(raw_type) ==
  IF validate_cypher_rel_type(raw_type) THEN raw_type ELSE sanitize_label(raw_type)

\* rel.get on an element that is no object; the pattern match on a type that
\* is no string (reached only by a relationship that is not dangling).
RelRaises(rel, mapping) ==
  \/ rel.t # "dict"
  \/ ~Dangling(rel, mapping) /\ rel.type = NonStr

\* Lines 668-691: rels_by_type, the groups in the order of their first item.
RECURSIVE GroupRels(_, _, _, _)
GroupRels(rels, k, mapping, groups) ==
  IF k > Len(rels) THEN groups
  ELSE LET rel == rels[k]
           rel_type == safe_rel_type(rel.type)
           it == [source_id |-> mapping[rel.source], target_id |-> mapping[rel.target],
                  props |-> rel.props]
           at == {x \in 1..Len(groups) : groups[x].key = rel_type}
           nxt == IF Dangling(rel, mapping) THEN groups
                  ELSE IF at = {}
                  THEN Append(groups, [key |-> rel_type, items |-> <<it>>])
                  ELSE [groups EXCEPT ![CHOOSE x \in at : TRUE].items = Append(@, it)]
       IN  GroupRels(rels, k + 1, mapping, nxt)

\* The relationships one UNWIND ... MATCH ... CREATE statement makes: one per
\* item whose two nodes exist.
RECURSIVE CreatedRels(_, _, _, _)
CreatedRels(rel_type, batch, k, nodes) ==
  IF k > Len(batch) THEN <<>>
  ELSE LET b == batch[k]
           ids == {n.id : n \in nodes}
           made == IF b.source_id \in ids /\ b.target_id \in ids
                   THEN <<[start |-> b.source_id, end |-> b.target_id,
                           type |-> CypherName(rel_type), props |-> b.props,
                           origin |-> "restore"]>>
                   ELSE <<>>
       IN  made \o CreatedRels(rel_type, batch, k + 1, nodes)

\* ---------------------------------------------------------- restore_backup
\* A write statement sent to the database, and whether it succeeded.
Stmt(op, ok) == [op |-> op, ok |-> ok]

\* Lines 490-492: zipfile.BadZipFile is caught and None returned, so that
\* restore_backup returns False.
on_bad_zip_uncaught == "raised"
on_bad_zip == "false"

\* A restore that creates the relationships before the nodes.
steps_rels_first == <<"prepare", "rels", "nodes", "verify">>

\* Lines 419-430: restore_backup calls _prepare_database_for_restore,
\* _restore_nodes_batch, _restore_relations_batch and _verify_restore, in
\* this order.
steps == <<"prepare", "nodes", "rels", "verify">>
step_after(p) == steps[(CHOOSE i \in 1..Len(steps) : steps[i] = p) + 1]

\* return <value> of restore_backup, after the message it printed.
Return(value, message) ==
  /\ result' = [value |-> value, message |-> message]
  /\ pc' = "returned"

\* Lines 384-396: the existence test and _extract_backup_safe (lines 442-492).
RestoreOpen ==
  /\ pc = "start"
  /\ LET f == fs[backup_file]
     IN  IF f = NoFile
         THEN /\ Return("false", "file not found")
              /\ UNCHANGED <<temp_dirs, tmp, json_file, disk_dirs>>
         ELSE IF f.suffix # ".zip"
         THEN /\ json_file' = [c |-> f.c, src |-> 0]
              /\ pc' = "load"
              /\ UNCHANGED <<temp_dirs, tmp, result, disk_dirs>>
         ELSE /\ temp_dirs' = Append(temp_dirs, temp_dir)
              /\ disk_dirs' = disk_dirs \cup {temp_dir}
              /\ IF f.c.t # "zip"
                 THEN \* zipfile.BadZipFile
                      /\ Return(on_bad_zip, "corrupt zip")
                      /\ UNCHANGED <<tmp, json_file>>
                 ELSE LET dir == ExtractMembers(f.c.members, 1, EmptyDir)
                      IN  /\ tmp' = dir
                          /\ IF ExtractRaises(f.c.members)
                             THEN /\ Return("raised", "zlib.error")
                                  /\ UNCHANGED json_file
                             ELSE IF GlobJson(dir) = {}
                             THEN /\ Return("false", "no json in zip")
                                  /\ UNCHANGED json_file
                             ELSE \* json_files[0]: the directory order is not fixed
                                  /\ \E q \in GlobJson(dir) : json_file' = dir[q]
                                  /\ pc' = "load"
                                  /\ UNCHANGED result
  /\ UNCHANGED otherVars
  /\ UNCHANGED asked
  /\ UNCHANGED <<fs, backup_file, backup_data, db_nodes, db_rels, next_id, id_mapping,
                 nodes_by_labels, rels_by_type, grp, off, item, restored_rels,
                 printed, spliced, statements, fails>>
  /\ UNCHANGED call
  /\ UNCHANGED procs

\* Lines 398-417: json.load and _validate_backup_schema.
RestoreLoad ==
  /\ pc = "load"
  /\ IF json_file.c.t # "json"
     THEN \* json.JSONDecodeError
          /\ Return("false", "invalid json")
          /\ UNCHANGED backup_data
     ELSE /\ backup_data' = json_file.c.doc
          /\ LET valid == _validate_backup_schema(json_file.c.doc)
             IN  IF valid = "raise" THEN Return("raised", "TypeError")
                 ELSE IF valid = "false" THEN Return("false", "invalid backup")
                 ELSE pc' = "prepare" /\ UNCHANGED result
  /\ UNCHANGED otherVars
  /\ UNCHANGED <<asked, disk_dirs>>
  /\ UNCHANGED <<fs, backup_file, temp_dirs, tmp, json_file, db_nodes, db_rels, next_id,
                 id_mapping, nodes_by_labels, rels_by_type, grp, off, item,
                 restored_rels, printed, spliced, statements, fails>>
  /\ UNCHANGED call
  /\ UNCHANGED procs

\* ------------------------------------------------------ input_with_timeout
\* The standard input: a terminal or not, and what the read of one line ends
\* with: a line typed ("typed", the text), the alarm ("timeout") or the end of
\* the input ("eof").
Stdin(isatty, outcome, text) == [isatty |-> isatty, outcome |-> outcome, text |-> text]
NoTerminal == Stdin(FALSE, "eof", "")
Typed(text) == Stdin(TRUE, "typed", text)

\* An input whose default answer is "yes".
input_default_yes(in, default) ==
  IF ~in.isatty THEN "yes"
  ELSE IF in.outcome = "typed" THEN in.text
  ELSE "yes"

\* Lines 77-113: the default when the input is no terminal, on TimeoutError
\* and on EOFError; the line typed otherwise.
input_with_timeout(in, default) ==
  IF ~in.isatty THEN default
  ELSE IF in.outcome = "typed" THEN in.text
  ELSE default

\* The lines a user may type.
Lines == {"yes", "YES", "Yes", "no", "y", "", " yes", "yes please"}

\* str.lower() on those lines.
lower(text) ==
  CASE text = "YES" -> "yes"
    [] text = "Yes" -> "yes"
    [] OTHER -> text

\* An engine whose construction succeeded: env is what _connect met.
Connected ==
  [driver |-> "open", raise_on_error |-> FALSE, outcome |-> "connected", env |-> "ok"]

\* A call fn(arg, default) or fn(file_size, zip_size) that has not run yet
\* (times counts its runs; out is its result, again its result on out), and
\* no call at all.
Call(fn, arg, default, file_size, zip_size) ==
  [fn |-> fn, arg |-> arg, default |-> default, file_size |-> file_size,
   zip_size |-> zip_size, times |-> 0, ok |-> FALSE, out |-> <<>>,
   again |-> <<>>, fault |-> "", value |-> 0]
NoCall == Call("none", <<>>, <<>>, 0, 0)

\* Lines 419-421 and _prepare_database_for_restore (lines 531-567).  confirm
\* is the answer of input_with_timeout; a failing statement raises, the
\* transaction is rolled back and False is returned.
RestorePrepare ==
  /\ pc = "prepare"
  /\ \/ /\ fails < MaxDbFailures
        /\ fails' = fails + 1
        /\ Return("false", "error preparing")
        /\ UNCHANGED <<db_nodes, db_rels, statements, asked>>
     \/ /\ IF db_nodes # {} \/ db_rels # <<>>
           THEN LET confirm == input_with_timeout(stdin, "no")
                IN  /\ asked' = TRUE
                    /\ IF lower(confirm) = "yes"
                       THEN /\ db_rels' = <<>>
                            /\ db_nodes' = {}
                            /\ statements' = Append(statements, Stmt("clear", TRUE))
                       ELSE UNCHANGED <<db_nodes, db_rels, statements>>
           ELSE UNCHANGED <<db_nodes, db_rels, statements, asked>>
        /\ pc' = step_after("prepare")
        /\ UNCHANGED <<result, fails>>
  /\ UNCHANGED otherVars
  /\ UNCHANGED disk_dirs
  /\ UNCHANGED <<fs, backup_file, temp_dirs, tmp, json_file, backup_data, next_id,
                 id_mapping, nodes_by_labels, rels_by_type, grp, off, item,
                 restored_rels, printed, spliced>>
  /\ UNCHANGED call
  /\ UNCHANGED procs

\* After a batch of nodes (lines 645-650): the next batch, the next group, or
\* the end of _restore_nodes_batch.
NodesAdvance(mapping) ==
  IF off + BatchSize < Len(nodes_by_labels[grp].items)
  THEN /\ off' = off + BatchSize
       /\ pc' = "nodes_batch"
       /\ UNCHANGED <<grp, printed>>
  ELSE /\ off' = 0
       /\ grp' = IF grp < Len(nodes_by_labels) THEN grp + 1 ELSE 1
       /\ IF grp < Len(nodes_by_labels)
          THEN pc' = "nodes_batch" /\ UNCHANGED printed
          ELSE /\ pc' = step_after("nodes")
               /\ printed' = [printed EXCEPT !.nodes = Cardinality(DOMAIN mapping)]

\* Lines 576-604: the grouping of the nodes.  An exception leaves
\* _restore_nodes_batch and is caught at line 432.
RestoreNodesGroup ==
  /\ pc = "nodes"
  /\ LET nodes == backup_data.nodes.v
     IN  IF \E k \in 1..Len(nodes) : NodeRaises(nodes[k])
         THEN /\ Return("false", "error restoring")
              /\ UNCHANGED <<nodes_by_labels, printed>>
         ELSE /\ nodes_by_labels' = GroupNodes(nodes, 1, <<>>)
              /\ IF nodes = <<>>
                 THEN /\ pc' = step_after("nodes")
                      /\ printed' = [printed EXCEPT !.nodes = 0]
                 ELSE pc' = "nodes_batch" /\ UNCHANGED printed
              /\ UNCHANGED result
  /\ UNCHANGED otherVars
  /\ UNCHANGED <<asked, disk_dirs>>
  /\ UNCHANGED <<fs, backup_file, temp_dirs, tmp, json_file, backup_data, db_nodes,
                 db_rels, next_id, id_mapping, rels_by_type, grp, off, item,
                 restored_rels, spliced, statements, fails>>
  /\ UNCHANGED call
  /\ UNCHANGED procs

\* Lines 606-631: one batch of nodes, `UNWIND $batch ... CREATE (n:labels)`.
\* The statement is one auto-commit transaction: it creates every node of the
\* batch, or it raises and creates none.
RestoreNodesBatch ==
  /\ pc = "nodes_batch"
  /\ LET group == nodes_by_labels[grp]
         batch == BatchOf(group.items, off)
     IN  /\ spliced' = spliced \cup {group.key[x] : x \in 1..Len(group.key)}
         /\ \/ /\ statements' = Append(statements, Stmt("nodes_batch", TRUE))
               /\ db_nodes' = db_nodes \cup CreatedNodes(group.key, batch, next_id)
               /\ next_id' = next_id + Len(batch)
               /\ id_mapping' = MapIds(id_mapping, batch, 1, next_id)
               /\ NodesAdvance(id_mapping')
               /\ UNCHANGED <<item, fails>>
            \/ /\ fails < MaxDbFailures
               /\ fails' = fails + 1
               /\ statements' = Append(statements, Stmt("nodes_batch", FALSE))
               /\ pc' = "nodes_item"
               /\ item' = 1
               /\ UNCHANGED <<db_nodes, next_id, id_mapping, grp, off, printed>>
  /\ UNCHANGED otherVars
  /\ UNCHANGED <<asked, disk_dirs>>
  /\ UNCHANGED <<fs, backup_file, temp_dirs, tmp, json_file, backup_data, db_rels,
                 nodes_by_labels, rels_by_type, restored_rels, result>>
  /\ UNCHANGED call
  /\ UNCHANGED procs

\* Lines 633-643: the fallback, `CREATE (n:labels $props)` for one item of the
\* failed batch; a failure is logged and the loop goes on.
RestoreNodeItem ==
  /\ pc = "nodes_item"
  /\ LET group == nodes_by_labels[grp]
         batch == fallback_items(BatchOf(group.items, off))
         last == item = Len(batch)
     IN  /\ \/ /\ statements' = Append(statements, Stmt("node", TRUE))
               /\ db_nodes' = db_nodes \cup CreatedNodes(group.key, <<batch[item]>>, next_id)
               /\ next_id' = next_id + 1
               /\ id_mapping' = MapIds(id_mapping, <<batch[item]>>, 1, next_id)
               /\ UNCHANGED fails
            \/ /\ fails < MaxDbFailures
               /\ fails' = fails + 1
               /\ statements' = Append(statements, Stmt("node", FALSE))
               /\ UNCHANGED <<db_nodes, next_id, id_mapping>>
         /\ IF last
            THEN item' = 1 /\ NodesAdvance(id_mapping')
            ELSE item' = item + 1 /\ UNCHANGED <<pc, grp, off, printed>>
  /\ UNCHANGED otherVars
  /\ UNCHANGED <<asked, disk_dirs>>
  /\ UNCHANGED <<fs, backup_file, temp_dirs, tmp, json_file, backup_data, db_rels,
                 nodes_by_labels, rels_by_type, restored_rels, result, spliced>>
  /\ UNCHANGED call
  /\ UNCHANGED procs

\* Lines 661-694: the grouping of the relationships.
RestoreRelsGroup ==
  /\ pc = "rels"
  /\ LET rels == backup_data.relations.v
     IN  IF \E k \in 1..Len(rels) : RelRaises(rels[k], id_mapping)
         THEN /\ Return("false", "error restoring")
              /\ UNCHANGED <<rels_by_type, printed>>
         ELSE LET groups == GroupRels(rels, 1, id_mapping, <<>>)
              IN  /\ rels_by_type' = groups
                  /\ IF groups = <<>>
                     THEN /\ pc' = step_after("rels")
                          /\ printed' = [printed EXCEPT !.rels = restored_rels]
                     ELSE pc' = "rels_batch" /\ UNCHANGED printed
                  /\ UNCHANGED result
  /\ UNCHANGED otherVars
  /\ UNCHANGED <<asked, disk_dirs>>
  /\ UNCHANGED <<fs, backup_file, temp_dirs, tmp, json_file, backup_data, db_nodes,
                 db_rels, next_id, id_mapping, nodes_by_labels, grp, off, item,
                 restored_rels, spliced, statements, fails>>
  /\ UNCHANGED call
  /\ UNCHANGED procs

\* After a batch of relationships (lines 734-740).
RelsAdvance(count) ==
  IF off + BatchSize < Len(rels_by_type[grp].items)
  THEN /\ off' = off + BatchSize
       /\ pc' = "rels_batch"
       /\ UNCHANGED <<grp, printed>>
  ELSE /\ off' = 0
       /\ grp' = IF grp < Len(rels_by_type) THEN grp + 1 ELSE 1
       /\ IF grp < Len(rels_by_type)
          THEN pc' = "rels_batch" /\ UNCHANGED printed
          ELSE /\ pc' = step_after("rels")
               /\ printed' = [printed EXCEPT !.rels = count]

\* Lines 696-716: one batch of relationships; `RETURN count(r) as created`.
RestoreRelsBatch ==
  /\ pc = "rels_batch"
  /\ LET group == rels_by_type[grp]
         batch == BatchOf(group.items, off)
         made == CreatedRels(group.key, batch, 1, db_nodes)
     IN  /\ spliced' = spliced \cup {group.key}
         /\ \/ /\ statements' = Append(statements, Stmt("rels_batch", TRUE))
               /\ db_rels' = db_rels \o made
               /\ restored_rels' = restored_rels + Len(made)
               /\ RelsAdvance(restored_rels')
               /\ UNCHANGED <<item, fails>>
            \/ /\ fails < MaxDbFailures
               /\ fails' = fails + 1
               /\ statements' = Append(statements, Stmt("rels_batch", FALSE))
               /\ pc' = "rels_item"
               /\ item' = 1
               /\ UNCHANGED <<db_rels, restored_rels, grp, off, printed>>
  /\ UNCHANGED otherVars
  /\ UNCHANGED <<asked, disk_dirs>>
  /\ UNCHANGED <<fs, backup_file, temp_dirs, tmp, json_file, backup_data, db_nodes,
                 next_id, id_mapping, nodes_by_labels, rels_by_type, result>>
  /\ UNCHANGED call
  /\ UNCHANGED procs

\* Lines 718-732: the fallback for one relationship; restored_rels += 1 after
\* every statement that did not raise.
RestoreRelItem ==
  /\ pc = "rels_item"
  /\ LET group == rels_by_type[grp]
         batch == fallback_items(BatchOf(group.items, off))
         last == item = Len(batch)
     IN  /\ \/ /\ statements' = Append(statements, Stmt("rel", TRUE))
               /\ db_rels' = db_rels \o CreatedRels(group.key, <<batch[item]>>, 1, db_nodes)
               /\ restored_rels' = restored_rels + 1
               /\ UNCHANGED fails
            \/ /\ fails < MaxDbFailures
               /\ fails' = fails + 1
               /\ statements' = Append(statements, Stmt("rel", FALSE))
               /\ UNCHANGED <<db_rels, restored_rels>>
         /\ IF last
            THEN item' = 1 /\ RelsAdvance(restored_rels')
            ELSE item' = item + 1 /\ UNCHANGED <<pc, grp, off, printed>>
  /\ UNCHANGED otherVars
  /\ UNCHANGED <<asked, disk_dirs>>
  /\ UNCHANGED <<fs, backup_file, temp_dirs, tmp, json_file, backup_data, db_nodes,
                 next_id, id_mapping, nodes_by_labels, rels_by_type, result, spliced>>
  /\ UNCHANGED call
  /\ UNCHANGED procs

\* Lines 429-440 and _verify_restore (lines 742-765): counting queries only.
RestoreVerify ==
  /\ pc = "verify"
  /\ \/ /\ Return("true", "restored")
        /\ UNCHANGED fails
     \/ /\ fails < MaxDbFailures
        /\ fails' = fails + 1
        /\ Return("false", "error restoring")
  /\ UNCHANGED otherVars
  /\ UNCHANGED <<asked, disk_dirs>>
  /\ UNCHANGED <<fs, backup_file, temp_dirs, tmp, json_file, backup_data, db_nodes,
                 db_rels, next_id, id_mapping, nodes_by_labels, rels_by_type, grp,
                 off, item, restored_rels, printed, spliced, statements>>
  /\ UNCHANGED call
  /\ UNCHANGED procs

RestoreNext ==
  \/ RestoreOpen
  \/ RestoreLoad
  \/ RestorePrepare
  \/ RestoreNodesGroup
  \/ RestoreNodesBatch
  \/ RestoreNodeItem
  \/ RestoreRelsGroup
  \/ RestoreRelsBatch
  \/ RestoreRelItem
  \/ RestoreVerify

\* -------------------------------------------------------------- the inputs
\* All sequences over S of length at most n.
SeqsUpTo(S, n) == UNION {[1..k -> S] : k \in 0..n}

\* The property map of the k-th record of a list is the token base + k.
WithProps(recs, base) == [k \in 1..Len(recs) |-> [recs[k] EXCEPT !.props = base + k]]

\* A target that is not empty: two nodes and a relationship between them.
PreNodes ==
  {[id |-> 0, labels |-> {<<"A">>}, props |-> 100, origin |-> "pre"],
   [id |-> 1, labels |-> {}, props |-> 101, origin |-> "pre"]}
PreRels ==
  <<[start |-> 0, end |-> 1, type |-> <<"R">>, props |-> 102, origin |-> "pre"]>>

\* The paths of the model.
Paths == {"backup.json", "backup.sha256", "backup.zip", "older.zip"}

\* BACKUP_LOG.json: t is "absent" (no file), "list" (a JSON list of entries),
\* "object" (a JSON object whose "backups" is the list of entries) or
\* "corrupt" (text that does not parse, which held the entries).
Ledger(t, entries) == [t |-> t, entries |-> entries]
NoLedger == Ledger("absent", <<>>)
\* No ledger is written: the exception leaves the method.
Raised == Ledger("raise", <<>>)

\* No invocation runs beside the one of the model.
NoProcs == <<>>

\* What surrounds an engine that has done nothing yet: the graph (nodes,
\* rels) of the database, the files `files`, the ledger `ledger`; `position`
\* is what runs next.
Surroundings(files, path, nodes, rels, position, src, ledger) ==
  /\ fs = files
  /\ backup_file = path
  /\ temp_dirs = <<>>
  /\ tmp = EmptyDir
  /\ json_file = [c |-> Garbage, src |-> 0]
  /\ backup_data = Archive(<<>>, <<>>, NoStats)
  /\ pc = position
  /\ result = [value |-> "none", message |-> ""]
  /\ db_nodes = nodes
  /\ db_rels = rels
  /\ next_id = Cardinality(nodes)
  /\ id_mapping = EmptyMap
  /\ nodes_by_labels = <<>>
  /\ rels_by_type = <<>>
  /\ grp = 1
  /\ off = 0
  /\ item = 1
  /\ restored_rels = 0
  /\ printed = [nodes |-> None, rels |-> None]
  /\ spliced = {}
  /\ statements = <<>>
  /\ fails = 0
  /\ target0 = [nodes |-> nodes, rels |-> rels]
  /\ log = ledger
  /\ source = src
  /\ created = ""
  /\ asked = FALSE
  /\ disk_dirs = {}

\* The same, the engine constructed and connected, no function called.
ConstructedWithLedger(files, path, nodes, rels, position, src, ledger) ==
  /\ Surroundings(files, path, nodes, rels, position, src, ledger)
  /\ engine = Connected
  /\ call = NoCall
  /\ procs = NoProcs

\* The same, without a ledger file.
Constructed(files, path, nodes, rels, position, src) ==
  ConstructedWithLedger(files, path, nodes, rels, position, src, NoLedger)

\* restore_backup(path) is called, the target being (nodes, rels).
RestoreCalled(files, path, nodes, rels) ==
  Constructed(files, path, nodes, rels, "start", [nodes |-> {}, rels |-> <<>>])

\* Only the file `name` exists, with the given suffix and content.
OneFile(name, suffix, content) ==
  [q \in Paths |-> IF q = name THEN File(suffix, content) ELSE NoFile]

\* Archives for the restore: the old identifiers may repeat or be missing,
\* the relationships may refer to identifiers no node has.
OldIds == {1, 2}
NodeRecs == {NodeRec(id, ls, 0) : id \in OldIds \cup {None}, ls \in {<<>>, <<<<"A">>>>}}
RelRecs == {RelRec(a, b, <<"R">>, 0) : a \in OldIds, b \in OldIds}
RestoreArchives ==
  {Archive(WithProps(ns, 0), WithProps(rs, 10), NoStats) :
     ns \in SeqsUpTo(NodeRecs, MaxNodes), rs \in SeqsUpTo(RelRecs, MaxRels)}

Init ==
  \E a \in RestoreArchives, pre \in BOOLEAN :
    /\ RestoreCalled(OneFile("backup.json", ".json", JsonText(a)), "backup.json",
                     IF pre THEN PreNodes ELSE {}, IF pre THEN PreRels ELSE <<>>)
    /\ stdin \in IF pre THEN {Typed("yes"), Typed("no")} ELSE {NoTerminal}

Next == RestoreNext

Spec == Init /\ [][Next]_vars

\* ------------------------------------------------ the claims: restoration
ArchiveNodes == backup_data.nodes.v
ArchiveRels == backup_data.relations.v
\* What this run created in the target.
NodesCreated == {n \in db_nodes : n.origin = "restore"}
RelsCreated == {k \in 1..Len(db_rels) : db_rels[k].origin = "restore"}
\* _restore_nodes_batch has returned.
NodePhaseDone == printed.nodes # None
\* The archive node a created node was made from (its property token).
ItemOf(n) == ArchiveNodes[n.props]
Injective(f) == \A a, b \in DOMAIN f : f[a] = f[b] => a = b
\* Every old identifier is mapped to the node created from its own item.
MappedInOrder ==
  \A n \in NodesCreated :
    /\ ItemOf(n).id \in DOMAIN id_mapping
    /\ id_mapping[ItemOf(n).id] = n.id
\* Every node record of the archive has an id, and no two have the same.
WellFormedIds ==
  /\ \A k \in 1..Len(ArchiveNodes) : ArchiveNodes[k].id # None
  /\ \A k, m \in 1..Len(ArchiveNodes) : ArchiveNodes[k].id = ArchiveNodes[m].id => k = m
NoNodeFailed == \A k \in 1..Len(statements) : statements[k] # Stmt("node", FALSE)
NoRelFailed == \A k \in 1..Len(statements) : statements[k] # Stmt("rel", FALSE)

C4_ReportCountsWhatWasCreated ==
  result.value = "true" =>
    /\ printed.nodes = Cardinality(NodesCreated)
    /\ printed.rels = Cardinality(RelsCreated)

\* The relationship records of the archive dropped as dangling.
DanglingRels == {k \in 1..Len(ArchiveRels) : Dangling(ArchiveRels[k], id_mapping)}
\* The k-th relationship record was created (its property token is 10 + k).
RelCreated(k) == \E x \in RelsCreated : db_rels[x].props = 10 + k

\* C5: a dangling relationship is not created, is counted in
\* relationshipsSkipped and does not abort the restore, which still creates
\* every relationship whose two endpoints are mapped.
C5_DanglingCountedNotFatal ==
  (pc = "returned" /\ DanglingRels # {} /\ fails = 0) =>
    /\ result.value = "true"
    /\ \A k \in DanglingRels : ~RelCreated(k)
    /\ \A k \in (1..Len(ArchiveRels)) \ DanglingRels : RelCreated(k)
    /\ "relationshipsSkipped" \in DOMAIN printed
    /\ printed["relationshipsSkipped"] = Cardinality(DanglingRels)

\* ------------------------------------------- the inputs: labels and types
\* The characters of the archive's labels and types: a letter, a digit, the
\* underscore, a blank and a newline; the strings of at most MaxStrLen of them.
LabelChars == {"A", "1", "_", " ", "\n"}
MaxStrLen == 2
LabelStrings == SeqsUpTo(LabelChars, MaxStrLen) \cup {NonStr}

\* Two nodes and a relationship between them: the first node carries an
\* arbitrary label beside "B", the relationship an arbitrary type.
LabelArchives ==
  {Archive(<<NodeRec(1, <<<<"B">>, l>>, 1), NodeRec(2, <<<<"A">>>>, 2)>>,
           <<RelRec(1, 2, ty, 11)>>, NoStats) :
     l \in LabelStrings, ty \in LabelStrings}

InitLabels ==
  \E a \in LabelArchives :
    /\ RestoreCalled(OneFile("backup.json", ".json", JsonText(a)), "backup.json", {}, <<>>)
    /\ stdin = NoTerminal

SpecLabels == InitLabels /\ [][Next]_vars

\* C1: every label and every relationship type that occurs in the text of a
\* statement sent to the database matches the identifier grammar.
C1_SplicedMatchGrammar == \A s \in spliced : MatchesGrammar(s)

\* --------------------------------------------- the inputs: files to read
MaxMembers == 2
GoodArchive ==
  Archive(<<NodeRec(1, <<<<"A">>>>, 1), NodeRec(2, <<<<"A">>>>, 2)>>,
          <<RelRec(1, 2, <<"R">>, 11)>>, NoStats)
EvilArchive == Archive(<<NodeRec(1, <<<<"E">>>>, 1)>>, <<>>, NoStats)

\* A node record with only "labels", and one with neither key.
NodeLabelsOnly == [NodeRec(1, <<<<"A">>>>, 0) EXCEPT !.has = {"labels"}]
NodeNoKeys == [NodeRec(1, <<>>, 0) EXCEPT !.has = {}]

\* What the file may parse to: every JSON type at the top level, every subset
\* of the required keys, the values under them of the right and of a wrong type.
NodesValues ==
  {NotAList, ListOf(<<>>), ListOf(<<NodeOther>>), ListOf(<<NodeNoKeys>>),
   ListOf(<<NodeLabelsOnly>>), ListOf(GoodArchive.nodes.v),
   ListOf(<<NodeRec(1, <<<<"A">>>>, 1), NodeOther>>)}
RelsValues == {NotAList, ListOf(<<>>), ListOf(GoodArchive.relations.v)}
SchemaDocs ==
  {Doc("dict", ks, md, ns, rs, NoStats) :
     ks \in SUBSET {"metadata", "nodes", "relations"}, md \in {"dict", "other"},
     ns \in NodesValues, rs \in RelsValues}
  \cup {Doc(t, ks, "other", NotAList, NotAList, NoStats) :
          t \in {"list", "str"}, ks \in SUBSET {"metadata", "nodes", "relations"}}
  \cup {Doc(t, {}, "other", NotAList, NotAList, NoStats) : t \in {"num", "null", "bool"}}

\* The members of a bundle: g.json, s/g.json and s/../g.json stay inside the
\* extraction directory /t/d; /e/x.json, ../../e/x.json, ../dx.json (a file
\* beside the directory whose name starts with "d") and ../dx/y.json (a
\* directory beside it whose name starts with "d") do not; g.sha256 is no
\* data file; the bytes of h.json are damaged.
Good == JsonText(GoodArchive)
Evil == JsonText(EvilArchive)
MemberPool ==
  {Member(FALSE, << <<"g", ".json">> >>, Good),
   Member(FALSE, << <<"s">>, <<"g", ".json">> >>, Good),
   Member(FALSE, << <<"s">>, DotDot, <<"g", ".json">> >>, Good),
   Member(FALSE, << <<"g", ".sha256">> >>, Garbage),
   Member(FALSE, << <<"h", ".json">> >>, Damaged),
   Member(TRUE, << <<"e">>, <<"x", ".json">> >>, Evil),
   Member(FALSE, << DotDot, DotDot, <<"e">>, <<"x", ".json">> >>, Evil),
   Member(FALSE, << DotDot, <<"d", "x", ".json">> >>, Evil),
   Member(FALSE, << DotDot, <<"d", "x">>, <<"y", ".json">> >>, Evil)}

\* The files restore_backup is called on: none, a data file of any content,
\* a file named .zip that is no zip container, a bundle.
ReadFiles ==
  {NoFile, File(".json", Garbage), File(".zip", Garbage)}
  \cup {File(".json", JsonText(d)) : d \in SchemaDocs}
  \cup {File(".zip", ZipOf(ms)) : ms \in SeqsUpTo(MemberPool, MaxMembers)}

\* The name of the file has the suffix.
PathOf(f) == IF f.suffix = ".zip" THEN "backup.zip" ELSE "backup.json"

InitRead ==
  \E f \in ReadFiles, pre \in BOOLEAN :
    /\ RestoreCalled([q \in Paths |-> IF q = PathOf(f) THEN f ELSE NoFile], PathOf(f),
                     IF pre THEN PreNodes ELSE {}, IF pre THEN PreRels ELSE <<>>)
    /\ stdin \in IF pre THEN {Typed("yes"), Typed("no")} ELSE {NoTerminal}

SpecRead == InitRead /\ [][Next]_vars

\* ------------------------------------------------ the reading of the file
TheFile == fs[backup_file]
IsBundle == TheFile.suffix = ".zip" /\ TheFile.c.t = "zip"

\* The entry's resolved location is below the extraction directory, compared
\* component by component.
TrulyInside(m) ==
  /\ ~m.abs
  /\ LET r == Resolve(temp_dir, m.comps)
     IN  Len(r) > Len(temp_dir) /\ SubSeq(r, 1, Len(temp_dir)) = temp_dir

\* C6: an entry of the bundle whose resolved location is outside the
\* extraction directory (absolute path, parent traversal, a sibling whose
\* name begins with the directory's name) is never written outside the
\* directory, and its content never becomes the parsed archive.
C6_UnsafeEntriesNeverParsed ==
  IsBundle =>
    /\ \A q \in DOMAIN tmp : \A i \in 1..Len(q) : q[i] # DotDot
    /\ json_file.src # 0 => TrulyInside(TheFile.c.members[json_file.src])

\* The schema of the archive: a top-level object with the three keys,
\* metadata an object, both collections lists, and the first node, when
\* there is one, exposing labels or properties.
SchemaAccepts(d) ==
  /\ d.t = "dict"
  /\ {"metadata", "nodes", "relations"} \subseteq d.keys
  /\ d.metadata = "dict"
  /\ d.nodes.t = "list"
  /\ d.relations.t = "list"
  /\ IF d.nodes.v = <<>> THEN TRUE
     ELSE d.nodes.v[1].t = "dict" /\ d.nodes.v[1].has \cap {"labels", "properties"} # {}

\* The ways the reading fails: the file is missing, the container is corrupt
\* (no zip at all, or a member that does not decompress), the bundle has no
\* data file, the data file is no JSON, the parsed value violates the schema.
FileMissing == TheFile.suffix = ""
CorruptContainer ==
  /\ TheFile.suffix = ".zip"
  /\ TheFile.c.t # "zip" \/ ExtractRaises(TheFile.c.members)
NoDataFile == IsBundle /\ pc # "start" /\ GlobJson(tmp) = {}
OpenFails == FileMissing \/ CorruptContainer \/ NoDataFile
InvalidJson == ~OpenFails /\ pc # "start" /\ json_file.c.t # "json"
Parsed == pc \notin {"start", "load"} /\ json_file.c.t = "json"
SchemaViolation == Parsed /\ ~SchemaAccepts(json_file.c.doc)
ReadingFails == OpenFails \/ InvalidJson \/ SchemaViolation

TargetUntouched ==
  /\ statements = <<>>
  /\ db_nodes = target0.nodes
  /\ db_rels = target0.rels

\* C8: when the reading of the archive fails (file missing, corrupt container,
\* no data file in the bundle, invalid JSON, schema violation) no write
\* statement is sent to the target database: the run never gets past the
\* reading, does not report success, and the graph is what it was.
C8_ReadingFailureWritesNothing ==
  ReadingFails =>
    /\ TargetUntouched
    /\ pc \in {"start", "load", "returned"}
    /\ result.value # "true"

\* A run that ended on a schema violation with nodes in the target graph.
C8_Witness ==
  /\ pc = "returned"
  /\ SchemaViolation
  /\ json_file.c.doc.t = "dict"
  /\ target0.nodes # {}
  /\ db_nodes = target0.nodes

\* C9: the parsed value is accepted if and only if it satisfies the schema,
\* and a value that does not is rejected with the value False and the message
\* of the validation, never with an exception that leaves restore_backup.
C9_SchemaRejectsAsValue ==
  Parsed =>
    IF SchemaAccepts(json_file.c.doc)
    THEN result.message \notin {"invalid backup", "TypeError"}
    ELSE result = [value |-> "false", message |-> "invalid backup"]

\* C10: when the bundle is a corrupt zip container, or no data file is found
\* after the extraction, restore_backup returns False; no exception leaves it.
C10_BadBundleIsAnErrorValue ==
  (pc # "start" /\ (CorruptContainer \/ NoDataFile)) =>
    /\ pc = "returned"
    /\ result.value = "false"

\* ----------------------------------------------------------- create_backup
\* The orders in which a query may return the elements of S.
Orders(S) ==
  {f \in [1..Cardinality(S) -> S] : \A i, j \in 1..Cardinality(S) : f[i] = f[j] => i = j}

\* labels(n) as a list.
LabelList(S) == sorted(CHOOSE f \in Orders(S) : TRUE)

\* Lines 269-287: _export_nodes, the records in the order `ord` of the result.
ExportNodes(ord) ==
  [k \in 1..Len(ord) |-> NodeRec(ord[k].id, LabelList(ord[k].labels), ord[k].props)]

\* Lines 289-309: _export_relations.
ExportRelations(ord) ==
  [k \in 1..Len(ord) |->
     RelRec(db_rels[ord[k]].start, db_rels[ord[k]].end, db_rels[ord[k]].type,
            db_rels[ord[k]].props)]

\* Lines 311-324: _get_label_stats, label -> number of nodes that carry it.
LabelStats(nodes) ==
  [l \in UNION {n.labels : n \in nodes} |-> Cardinality({n \in nodes : l \in n.labels})]

\* An export that goes on to the save after a statement failed.
export_error_ignored == "save"

\* Lines 233-236: the handler of the export's try block logs the error and
\* returns None, which ends create_backup.
on_export_error == "done"

\* Lines 202-254: the export (any statement may fail: the except of line 233
\* returns None) and the structure of the backup.
BackupExport ==
  /\ pc = "backup"
  /\ \/ /\ fails < MaxDbFailures
        /\ fails' = fails + 1
        /\ created' = "None"
        /\ pc' = on_export_error
        /\ UNCHANGED backup_data
     \/ /\ \E no \in Orders(db_nodes), ro \in Orders(1..Len(db_rels)) :
             LET nodes_data == ExportNodes(no)
                 relations_data == ExportRelations(ro)
             IN  backup_data' =
                   Archive(nodes_data, relations_data,
                           [total_nodes |-> Len(nodes_data),
                            total_relations |-> Len(relations_data),
                            labels |-> LabelStats(db_nodes)])
        /\ pc' = "save"
        /\ UNCHANGED <<fails, created>>
  /\ UNCHANGED <<fs, backup_file, temp_dirs, tmp, json_file, result, db_nodes, db_rels,
                 next_id, id_mapping, nodes_by_labels, rels_by_type, grp, off, item,
                 restored_rels, printed, spliced, statements, target0, log, source>>
  /\ UNCHANGED <<stdin, engine, asked, disk_dirs>>
  /\ UNCHANGED call
  /\ UNCHANGED procs

\* The names of the data file and of the sidecar inside the bundle.
json_name == << <<"b", ".json">> >>
hash_name == << <<"b", ".sha256">> >>

\* A create_backup that goes on to the ledger after a write raised.
save_error_ignored == "log"

\* Lines 256-262: no handler surrounds the call of _save_backup_files, so an
\* exception raised by a write leaves create_backup before line 262.
on_save_error == "done"

\* The write of _save_backup_files that raises (OSError: disk full, no
\* permission), or "none".
SaveFailures == {"none", "json", "sha256", "zip"}

\* Lines 326-380: _save_backup_files writes the data file, the sidecar with
\* the hash of the data file's bytes, and the bundle that holds both, in this
\* order.  A write that raises leaves the files written before it (and
\* possibly a part of its own file); the exception leaves create_backup,
\* which has no handler around lines 256-262.
BackupSave ==
  /\ pc = "save"
  /\ \E failure \in SaveFailures, partial \in BOOLEAN :
       LET text == JsonText(backup_data)
           file_hash == Sha256(text)
           line == ShaLine(file_hash, json_name)
           bundle == ZipOf(<<Member(FALSE, json_name, text), Member(FALSE, hash_name, line)>>)
           broken(suffix) == IF partial THEN File(suffix, Garbage) ELSE NoFile
       IN  /\ failure = "none" => ~partial
           /\ fs' = [q \in Paths |->
                       IF q = "backup.json"
                       THEN (IF failure = "json" THEN broken(".json")
                             ELSE File(".json", text))
                       ELSE IF q = "backup.sha256"
                       THEN (IF failure = "json" THEN fs[q]
                             ELSE IF failure = "sha256"
                             THEN broken(".sha256")
                             ELSE File(".sha256", line))
                       ELSE IF q = "backup.zip"
                       THEN (IF failure \in {"json", "sha256"} THEN fs[q]
                             ELSE IF failure = "zip"
                             THEN broken(".zip")
                             ELSE File(".zip", bundle))
                       ELSE fs[q]]
           /\ IF failure = "none"
              THEN pc' = "log" /\ UNCHANGED created
              ELSE pc' = on_save_error /\ created' = "raised"
  /\ UNCHANGED <<backup_file, temp_dirs, tmp, json_file, backup_data, result, db_nodes,
                 db_rels, next_id, id_mapping, nodes_by_labels, rels_by_type, grp, off,
                 item, restored_rels, printed, spliced, statements, fails, target0, log,
                 source>>
  /\ UNCHANGED <<stdin, engine, asked, disk_dirs>>
  /\ UNCHANGED call
  /\ UNCHANGED procs

\* An entry that records the hash of the bundle instead of the data file's.
LogEntryOfBundle ==
  [json_file |-> "backup.json", zip_file |-> "backup.zip",
   hash |-> Sha256(fs["backup.zip"].c),
   nodes |-> Len(backup_data.nodes.v), relations |-> Len(backup_data.relations.v)]

\* The entry _update_log builds (lines 779-790).
LogEntry ==
  [json_file |-> "backup.json", zip_file |-> "backup.zip",
   hash |-> Sha256(JsonText(backup_data)),
   nodes |-> Len(backup_data.nodes.v), relations |-> Len(backup_data.relations.v)]

\* Lines 792-803: _update_log.  A missing file and a file that does not parse
\* (json.JSONDecodeError, line 797) both start from the empty list; append on
\* a value that is no list raises AttributeError (Raised).
_update_log(ledger, entry) ==
  IF ledger.t = "object" THEN Raised
  ELSE IF ledger.t \in {"absent", "corrupt"} THEN Ledger("list", <<entry>>)
  ELSE Ledger("list", Append(ledger.entries, entry))

\* Line 262 and lines 264-267: _update_log, then create_backup returns the
\* two paths.
BackupLog ==
  /\ pc = "log"
  /\ LET written == _update_log(log, LogEntry)
     IN  IF written = Raised
         THEN /\ created' = "raised"
              /\ pc' = "done"
              /\ UNCHANGED log
         ELSE /\ log' = written
              /\ created' = "files"
              /\ pc' = "created"
  /\ UNCHANGED <<fs, backup_file, temp_dirs, tmp, json_file, backup_data, result,
                 db_nodes, db_rels, next_id, id_mapping, nodes_by_labels, rels_by_type,
                 grp, off, item, restored_rels, printed, spliced, statements, fails,
                 target0, source>>
  /\ UNCHANGED <<stdin, engine, asked, disk_dirs>>
  /\ UNCHANGED call
  /\ UNCHANGED procs

\* The data of the archive at `path` and the hash recorded beside it.
DataOf(path) ==
  IF path = "backup.zip" THEN fs[path].c.members[1].c ELSE fs[path].c
RecordedHash(path) ==
  IF path = "backup.zip" THEN fs[path].c.members[2].c.hash[1]
  ELSE fs["backup.sha256"].c.hash[1]
Tampered(path) == Sha256(DataOf(path)) # RecordedHash(path)

\* The archive with one byte changed: a digit of the statistics, or a
\* character of one node's properties (the token 9).
AlteredDocs(doc) ==
  {[doc EXCEPT !.stats.total_nodes = @ + 1]}
  \cup {[doc EXCEPT !.nodes.v[k].props = 9] : k \in 1..Len(doc.nodes.v)}

\* Somebody changes the data file, on disk or inside the bundle, after
\* create_backup recorded its hash.
Tamper ==
  /\ pc = "created"
  /\ created = "files"
  /\ \A q \in {"backup.json", "backup.zip"} : ~Tampered(q)
  /\ \E q \in {"backup.json", "backup.zip"}, alt \in AlteredDocs(backup_data) :
       fs' = IF q = "backup.zip"
             THEN [fs EXCEPT ![q].c.members[1].c = JsonText(alt)]
             ELSE [fs EXCEPT ![q].c = JsonText(alt)]
  /\ UNCHANGED <<backup_file, temp_dirs, tmp, json_file, backup_data, pc, result,
                 db_nodes, db_rels, next_id, id_mapping, nodes_by_labels, rels_by_type,
                 grp, off, item, restored_rels, printed, spliced, statements, fails,
                 target0, log, source, created>>
  /\ UNCHANGED <<stdin, engine, asked, disk_dirs>>
  /\ UNCHANGED call
  /\ UNCHANGED procs

\* restore_backup(path) is called on the archive create_backup produced, the
\* engine connected to an empty target database.
RestoreIntoEmpty ==
  /\ pc = "created"
  /\ created = "files"
  /\ \E path \in {"backup.json", "backup.zip"} : backup_file' = path
  /\ db_nodes' = {}
  /\ db_rels' = <<>>
  /\ next_id' = 0
  /\ target0' = [nodes |-> {}, rels |-> <<>>]
  /\ pc' = "start"
  /\ UNCHANGED <<fs, temp_dirs, tmp, json_file, backup_data, result, id_mapping,
                 nodes_by_labels, rels_by_type, grp, off, item, restored_rels, printed,
                 spliced, statements, fails, log, source, created>>
  /\ UNCHANGED <<stdin, engine, asked, disk_dirs>>
  /\ UNCHANGED call
  /\ UNCHANGED procs

\* The source graphs: up to MaxNodes nodes with identifiers 1, 2 and any of
\* the labels A, B (or none), up to MaxRels relationships between them.
SourceLabels == {<<"A">>, <<"B">>}
SourceNodes ==
  {ns \in SUBSET [id : OldIds, labels : SUBSET SourceLabels, props : {0}, origin : {"pre"}] :
     /\ Cardinality(ns) <= MaxNodes
     /\ \A a, b \in ns : a.id = b.id => a = b
     /\ \A a \in ns : a.id <= Cardinality(ns)}
SourceRels(ns) ==
  SeqsUpTo({[start |-> a.id, end |-> b.id, type |-> <<"R">>, props |-> 0, origin |-> "pre"] :
              a \in ns, b \in ns}, MaxRels)

\* create_backup is called on an engine connected to the source graph.
InitBackup ==
  \E ns \in SourceNodes :
    \E rs \in SourceRels(ns) :
      LET nodes == {[n EXCEPT !.props = 100 + n.id] : n \in ns}
          rels == [k \in 1..Len(rs) |-> [rs[k] EXCEPT !.props = 110 + k]]
      IN  /\ Constructed([q \in Paths |-> NoFile], "backup.zip", nodes, rels, "backup",
                         [nodes |-> nodes, rels |-> rels])
          /\ stdin = NoTerminal

NextBackup ==
  \/ BackupExport
  \/ BackupSave
  \/ BackupLog
  \/ Tamper
  \/ RestoreIntoEmpty
  \/ RestoreNext

SpecBackup == InitBackup /\ [][NextBackup]_vars

\* ------------------------------------------------- the claims: round trip
\* The number of nodes of the target that carry the label l.
TargetCount(l) == Cardinality({n \in db_nodes : l \in n.labels})
\* The archive's per-label counts (metadata.statistics.labels).
ArchiveCount(l) ==
  IF l \in DOMAIN backup_data.stats.labels THEN backup_data.stats.labels[l] ELSE 0
\* restore_backup returned True on the archive as create_backup wrote it, no
\* database statement having failed.
RestoredUnaltered ==
  /\ created = "files"
  /\ pc = "returned"
  /\ result.value = "true"
  /\ fails = 0
  /\ ~Tampered(backup_file)

\* C2: create_backup of a source graph with N nodes (each with any set of
\* labels, or none) and M relationships, followed by restore_backup of the
\* archive into an empty target, yields a target with exactly N nodes and M
\* relationships whose per-label node counts equal the archive's
\* (metadata.statistics labels).
C2_RoundTrip ==
  RestoredUnaltered =>
    /\ Cardinality(db_nodes) = Cardinality(source.nodes)
    /\ Len(db_rels) = Len(source.rels)
    /\ \A l \in DOMAIN backup_data.stats.labels \cup UNION {n.labels : n \in db_nodes} :
         TargetCount(l) = ArchiveCount(l)

\* C7: in every bundle create_backup produced the SHA-256 of the data file
\* equals the value recorded in the sidecar; and when the data file was
\* changed after the hash was recorded, restore_backup fails with an
\* integrity error and restores nothing of the altered data.
C7_HashIntegrity ==
  created = "files" =>
    /\ pc = "created" =>
         \A q \in {"backup.json", "backup.zip"} :
           DataOf(q) = JsonText(backup_data) => ~Tampered(q)
    /\ (pc = "returned" /\ Tampered(backup_file)) =>
         /\ result.value = "false"
         /\ db_nodes = {}
         /\ db_rels = <<>>

\* ------------------------------------------- the claims: the confirmation
\* Everything the standard input may be.
AllStdin ==
  {Typed(text) : text \in Lines}
  \cup {Stdin(TRUE, o, "") : o \in {"timeout", "eof"}}
  \cup {Stdin(FALSE, "typed", text) : text \in {"yes", "no"}}
  \cup {NoTerminal}

\* restore_backup is called on a well-formed archive, the target empty or
\* not, with any standard input.
InitConfirm ==
  \E a \in {GoodArchive, Archive(<<>>, <<>>, NoStats)}, pre \in BOOLEAN :
    /\ RestoreCalled(OneFile("backup.json", ".json", JsonText(a)), "backup.json",
                     IF pre THEN PreNodes ELSE {}, IF pre THEN PreRels ELSE <<>>)
    /\ stdin \in AllStdin

SpecConfirm == InitConfirm /\ [][Next]_vars

\* Every node and relationship the target had when restore_backup was called
\* is still there.
PreExistingKept ==
  /\ target0.nodes \subseteq db_nodes
  /\ Len(target0.rels) <= Len(db_rels)
  /\ \A k \in 1..Len(target0.rels) : db_rels[k] = target0.rels[k]
TargetWasEmpty == target0.nodes = {} /\ target0.rels = <<>>
\* A line was typed at a terminal and it is the word yes.
ExplicitYes ==
  /\ stdin.isatty
  /\ stdin.outcome = "typed"
  /\ stdin.text \in {"yes", "YES", "Yes"}

\* C11: pre-existing data of the target is deleted only if the target was
\* found non-empty and the decision was an explicit yes; with no decision
\* (no terminal, timeout, end of input) or any other answer nothing that
\* existed is deleted; an empty target is never asked about.
C11_ClearOnlyOnExplicitYes ==
  /\ ~PreExistingKept => (~TargetWasEmpty /\ asked /\ ExplicitYes)
  /\ TargetWasEmpty => ~asked

\* A restore into a non-empty target that asked, got no answer before the
\* timeout, and went on to the end with the old data in place.
C11_Witness ==
  /\ pc = "returned"
  /\ result.value = "true"
  /\ ~TargetWasEmpty
  /\ asked
  /\ stdin.isatty
  /\ stdin.outcome = "timeout"
  /\ db_nodes # target0.nodes
  /\ PreExistingKept

\* --------------------------- backup_neo4j_complete.py: the paginated export
\* The page size (batch_size, 50 for nodes and 100 for relationships in the
\* code) and the largest number of nodes of the exported graph.
PageSize == 2
MaxExportNodes == 3

\* ORDER BY node_id: the nodes of S by ascending identifier.
SortById(S) == CHOOSE f \in Orders(S) : \A i, j \in 1..Cardinality(S) : i < j => f[i].id < f[j].id

\* SKIP skip LIMIT limit on the rows of a result.
Page(rows, skip, limit) ==
  IF skip >= Len(rows) THEN <<>>
  ELSE SubSeq(rows, skip + 1, IF skip + limit < Len(rows) THEN skip + limit ELSE Len(rows))

\* Lines 42-55: label_stats, label -> number of nodes that carry it.
stats_query(nodes) ==
  [l \in UNION {n.labels : n \in nodes} |-> Cardinality({n \in nodes : l \in n.labels})]

\* The labels in the order of the dictionary: ORDER BY total DESC.
StatsLabels(label_stats) ==
  CHOOSE f \in Orders(DOMAIN label_stats) :
    \A i, j \in 1..Cardinality(DOMAIN label_stats) :
      i < j => label_stats[f[i]] >= label_stats[f[j]]

\* What create_backup of backup_neo4j_complete.py neither reads nor writes.
completeFrame ==
  <<backup_file, temp_dirs, tmp, json_file, result, db_nodes, db_rels, next_id,
    id_mapping, nodes_by_labels, rels_by_type, item, restored_rels, printed, spliced,
    statements, fails, target0, log, source, created, stdin, engine, asked, disk_dirs,
    call, procs>>

\* Lines 32-57: the statistics query.
CompleteStats ==
  /\ pc = "stats"
  /\ backup_data' = Archive(<<>>, <<>>, [NoStats EXCEPT !.labels = stats_query(db_nodes)])
  /\ grp' = 1
  /\ off' = 0
  /\ pc' = IF db_nodes = {} \/ stats_query(db_nodes) = <<>> THEN "page_rels" ELSE "page_nodes"
  /\ UNCHANGED fs
  /\ UNCHANGED completeFrame

\* Lines 60-90: one turn of `while offset < count` for the label being
\* exported: MATCH (n:label) ... ORDER BY node_id SKIP offset LIMIT batch_size.
CompleteNodesPage ==
  /\ pc = "page_nodes"
  /\ LET label_stats == backup_data.stats.labels
         order == StatsLabels(label_stats)
         label == order[grp]
         count == label_stats[label]
         rows == Page(SortById({n \in db_nodes : label \in n.labels}), off, PageSize)
         recs == [k \in 1..Len(rows) |->
                    NodeRec(rows[k].id, LabelList(rows[k].labels), rows[k].props)]
     IN  /\ backup_data' = [backup_data EXCEPT !.nodes.v = @ \o recs]
         /\ IF off + PageSize < count
            THEN /\ off' = off + PageSize
                 /\ UNCHANGED <<grp, pc>>
            ELSE /\ off' = 0
                 /\ grp' = IF grp < Len(order) THEN grp + 1 ELSE 1
                 /\ pc' = IF grp < Len(order) THEN "page_nodes" ELSE "page_rels"
  /\ UNCHANGED fs
  /\ UNCHANGED completeFrame

\* Lines 94-131: one turn of `while offset < total_rels`: MATCH (a)-[r]->(b)
\* ... ORDER BY rel_id SKIP offset LIMIT batch_size.  The identifier of a
\* relationship is its place in db_rels.
CompleteRelsPage ==
  /\ pc = "page_rels"
  /\ off < Len(db_rels)
  /\ LET rows == Page(db_rels, off, PageSize)
         recs == [k \in 1..Len(rows) |->
                    RelRec(rows[k].start, rows[k].end, rows[k].type, rows[k].props)]
     IN  backup_data' = [backup_data EXCEPT !.relations.v = @ \o recs]
  /\ off' = off + PageSize
  /\ UNCHANGED <<fs, grp, pc>>
  /\ UNCHANGED completeFrame

\* Lines 135-162: the archive is written.
CompleteSave ==
  /\ pc = "page_rels"
  /\ off >= Len(db_rels)
  /\ fs' = [fs EXCEPT !["backup.json"] = File(".json", JsonText(backup_data))]
  /\ pc' = "exported"
  /\ UNCHANGED <<backup_data, grp, off>>
  /\ UNCHANGED completeFrame

\* The graphs exported: up to MaxExportNodes nodes, each with any of the
\* labels A, B or none, and relationships between them.
ExportIds == 1..MaxExportNodes
ExportNodeSets ==
  {ns \in SUBSET [id : ExportIds, labels : SUBSET SourceLabels, props : {0}, origin : {"pre"}] :
     /\ \A a, b \in ns : a.id = b.id => a = b
     /\ \A a \in ns : a.id <= Cardinality(ns)}
ExportRels(ns) ==
  SeqsUpTo({[start |-> a.id, end |-> b.id, type |-> <<"R">>, props |-> 0, origin |-> "pre"] :
              a \in {n \in ns : n.id = 1}, b \in ns}, MaxRels + 1)

InitComplete ==
  \E ns \in ExportNodeSets :
    \E rs \in ExportRels(ns) :
      LET nodes == {[n EXCEPT !.props = 100 + n.id] : n \in ns}
          rels == [k \in 1..Len(rs) |-> [rs[k] EXCEPT !.props = 110 + k]]
      IN  /\ Constructed([q \in Paths |-> NoFile], "backup.json", nodes, rels, "stats",
                         [nodes |-> nodes, rels |-> rels])
          /\ stdin = NoTerminal

NextComplete ==
  \/ CompleteStats
  \/ CompleteNodesPage
  \/ CompleteRelsPage
  \/ CompleteSave

SpecComplete == InitComplete /\ [][NextComplete]_vars

\* C13: the paginated export is complete and free of duplicates: the target
\* not being changed during the export, the exported node sequence holds
\* every node exactly once (also a node with several labels, also when the
\* number of nodes is no multiple of the page size) and the exported
\* relationship sequence every relationship exactly once.
C13_ExportCompleteNoDuplicates ==
  pc = "exported" =>
    /\ \A n \in db_nodes :
         Cardinality({k \in 1..Len(backup_data.nodes.v) : backup_data.nodes.v[k].id = n.id}) = 1
    /\ \A r \in 1..Len(db_rels) :
         Cardinality({k \in 1..Len(backup_data.relations.v) :
                        backup_data.relations.v[k].props = db_rels[r].props}) = 1

\* ---------------------------------------------------------------------------
\* create_backup and the ledger file: prior ledgers, the three files, the
\* entry (C12, C14, C15).

\* Line 172 of src/src/backup_mcp.py: log["backups"][-10:].
keep_last == 10

\* The last n elements of a sequence (the slice [-n:]).
LastN(seq, n) ==
  IF Len(seq) <= n THEN seq ELSE SubSeq(seq, Len(seq) - n + 1, Len(seq))

\* MCPNeo4jBackup._save_log: json.load of the existing file has no handler
\* (a file that does not parse raises), log["backups"] on a list raises
\* TypeError, a missing file starts from {"backups": []}; the entry is
\* appended and only the last ten entries are written back.
_save_log(ledger, entry) ==
  IF ledger.t \in {"corrupt", "list"} THEN Raised
  ELSE Ledger("object", LastN(Append(ledger.entries, entry), keep_last))

\* The entry _save_log appends: the bundle's name, the statistics of the
\* simulated export (10 nodes, 5 relationships) and the hash.
McpEntry(file_hash) ==
  [json_file |-> "", zip_file |-> "backup.zip", hash |-> file_hash,
   nodes |-> 10, relations |-> 5]

\* MCPNeo4jBackup.create_backup: the data file is written, hashed, put into
\* the bundle beside metadata.json and integrity.json (both hold the hash)
\* and removed; then _save_log.
McpCreateBackup ==
  /\ pc = "mcp"
  /\ LET text == JsonText(backup_data)
         file_hash == Sha256(text)
         held == ShaLine(file_hash, json_name)
         written == _save_log(log, McpEntry(file_hash))
     IN  /\ fs' = [fs EXCEPT !["backup.zip"] =
                     File(".zip", ZipOf(<<Member(FALSE, json_name, text),
                                          Member(FALSE, << <<"metadata", ".json">> >>, held),
                                          Member(FALSE, << <<"integrity", ".json">> >>, held)>>))]
         /\ IF written = Raised
            THEN created' = "raised" /\ UNCHANGED log
            ELSE created' = "mcp" /\ log' = written
  /\ pc' = "done"
  /\ UNCHANGED <<backup_file, temp_dirs, tmp, json_file, backup_data, result, db_nodes,
                 db_rels, next_id, id_mapping, nodes_by_labels, rels_by_type, grp, off,
                 item, restored_rels, printed, spliced, statements, fails, target0,
                 source>>
  /\ UNCHANGED <<stdin, engine, asked, disk_dirs>>
  /\ UNCHANGED call
  /\ UNCHANGED procs

\* The ledger files found before a backup: none, a list or an object with
\* 0, 1, keep_last - 1 or keep_last entries of earlier backups, and a file
\* whose text (holding these entries) no longer parses.
OldEntry(k) ==
  [json_file |-> "old.json", zip_file |-> "old.zip",
   hash |-> Sha256(JsonText(Archive(<<>>, <<>>, NoStats))),
   nodes |-> k, relations |-> 0]
OldEntries(n) == [k \in 1..n |-> OldEntry(k)]
PriorLedgers ==
  {NoLedger} \cup {Ledger(t, OldEntries(n)) : t \in {"list", "object", "corrupt"},
                                             n \in {0, 1, keep_last - 1, keep_last}}

\* create_backup is called: on any source graph with no ledger file, on a
\* two-node graph with any prior ledger; MCPNeo4jBackup.create_backup is
\* called with any prior ledger.
InitCreate ==
  \/ \E ns \in SourceNodes :
       \E rs \in SourceRels(ns) :
         /\ Constructed([q \in Paths |-> NoFile], "backup.zip", ns, rs, "backup",
                        [nodes |-> ns, rels |-> rs])
         /\ stdin = NoTerminal
  \/ \E ledger \in PriorLedgers, position \in {"backup", "mcp"} :
       LET ns == {[id |-> i, labels |-> {<<"A">>}, props |-> 0, origin |-> "pre"] : i \in OldIds}
           rs == <<[start |-> 1, end |-> 2, type |-> <<"R">>, props |-> 0, origin |-> "pre"]>>
       IN  /\ ConstructedWithLedger([q \in Paths |-> NoFile], "backup.zip", ns, rs,
                                    position, [nodes |-> ns, rels |-> rs], ledger)
           /\ stdin = NoTerminal

NextCreate ==
  \/ BackupExport
  \/ BackupSave
  \/ BackupLog
  \/ McpCreateBackup

SpecCreate == InitCreate /\ [][NextCreate]_vars

\* The positions of the ledger entries written by this create_backup.
NewEntries == {k \in 1..Len(log.entries) : log.entries[k].json_file = "backup.json"}

\* C12: once a read of the export has failed (the only database statements
\* of create_backup are those of the export), no step writes a data file, a
\* sidecar or a bundle, and no step changes the ledger.
C12_ExportFailureWritesNothing ==
  [][fails' > 0 => (fs' = fs /\ log' = log)]_vars

\* create_backup returned None after a read failed on a graph with nodes:
\* no file exists and the ledger holds no entry of this backup.
C12_Witness ==
  /\ pc = "done"
  /\ created = "None"
  /\ fails > 0
  /\ source.nodes # {}
  /\ \A q \in Paths : fs[q] = NoFile
  /\ NewEntries = {}

\* C14: every change of the ledger file adds one entry at the end and keeps
\* the entries the file held before, in their order.
C14_LedgerAppendOnly ==
  [][log' # log =>
       /\ Len(log'.entries) = Len(log.entries) + 1
       /\ SubSeq(log'.entries, 1, Len(log.entries)) = log.entries]_vars

\* The data file, the sidecar and the bundle of a complete save.
SavedFiles ==
  LET text == JsonText(backup_data)
      line == ShaLine(Sha256(text), json_name)
  IN  /\ fs["backup.json"] = File(".json", text)
      /\ fs["backup.sha256"] = File(".sha256", line)
      /\ fs["backup.zip"] =
           File(".zip", ZipOf(<<Member(FALSE, json_name, text),
                                Member(FALSE, hash_name, line)>>))

\* C15: a create_backup that returned its two paths has written the data
\* file, the sidecar "<sha256-hex>  <filename>" and the bundle holding both,
\* and the ledger ends with its one entry; the ledger holds an entry of this
\* backup only when the three files are written; a create_backup that a
\* write ended has written no entry.
C15_ThreeFilesThenOneEntry ==
  /\ (pc = "created" /\ created = "files") =>
       /\ SavedFiles
       /\ Cardinality(NewEntries) = 1
       /\ log.entries[Len(log.entries)] = LogEntry
  /\ NewEntries # {} => SavedFiles
  /\ (created = "raised" /\ ~SavedFiles) => NewEntries = {}

\* A write of the bundle raised after the data file and the sidecar were
\* written: the ledger still holds its earlier entries only.
C15_Witness ==
  /\ pc = "done"
  /\ created = "raised"
  /\ fs["backup.json"] # NoFile
  /\ fs["backup.sha256"] # NoFile
  /\ fs["backup.zip"] = NoFile
  /\ Len(log.entries) > 0
  /\ NewEntries = {}

\* ---------------------------------------------------------------------------
\* close(): the connection and the extraction directories (C16).

\* The elements of a sequence.
Range(seq) == {seq[k] : k \in 1..Len(seq)}

\* Lines 171-186: close(), called by restore_command's finally (neo4j_cli.py
\* lines 87-91) and by __exit__ (lines 191-193) after restore_backup returned
\* or raised.  driver.close() is outside any try: when it raises, the loop
\* over _temp_dirs is not reached.  shutil.rmtree is inside a try whose
\* handler only logs: a directory whose removal fails stays on disk, and
\* _temp_dirs is cleared all the same.
Close ==
  /\ pc = "returned"
  /\ \E driver_close_raises \in BOOLEAN, rmtree_fails \in SUBSET Range(temp_dirs) :
       IF driver_close_raises
       THEN /\ rmtree_fails = {}
            /\ pc' = "close raised"
            /\ UNCHANGED <<temp_dirs, disk_dirs, engine>>
       ELSE /\ engine' = [engine EXCEPT !.driver = "closed"]
            /\ disk_dirs' = disk_dirs \ (Range(temp_dirs) \ rmtree_fails)
            /\ temp_dirs' = <<>>
            /\ pc' = "closed"
  /\ UNCHANGED <<fs, backup_file, tmp, json_file, backup_data, result, db_nodes, db_rels,
                 next_id, id_mapping, nodes_by_labels, rels_by_type, grp, off, item,
                 restored_rels, printed, spliced, statements, fails, target0, log,
                 source, created, stdin, asked>>
  /\ UNCHANGED call
  /\ UNCHANGED procs

\* restore_command: the engine is constructed, restore_backup runs on any of
\* the files, close() runs in the finally.
InitClose == InitRead

NextClose ==
  \/ RestoreNext
  \/ Close

SpecClose == InitClose /\ [][NextClose]_vars

\* C16: once close() has returned, no extraction directory that restore_backup
\* created exists on disk.
C16_NoDirectoryAfterClose ==
  pc = "closed" => disk_dirs = {}

\* ---------------------------------------------------------------------------
\* The construction of the engine (C19).

\* What _connect meets: a missing NEO4J_PASSWORD (get_neo4j_auth raises
\* ValueError, config.py lines 96-108), rejected credentials (AuthError), no
\* server (ServiceUnavailable), any other exception, or none of these.
Envs == {"ok", "no password", "auth rejected", "unavailable", "other"}

\* Lines 130-138: _handle_error raises the typed error when raise_on_error
\* is set and calls sys.exit(1) otherwise.
_handle_error(raise_on_error, error) ==
  IF raise_on_error THEN error ELSE "SystemExit"

\* Lines 140-161: _connect maps ValueError to Neo4jConfigError and every
\* other exception to Neo4jConnectionError, and hands it to _handle_error.
_connect(env, raise_on_error) ==
  CASE env = "ok" -> "connected"
    [] env = "no password" -> _handle_error(raise_on_error, "Neo4jConfigError")
    [] OTHER -> _handle_error(raise_on_error, "Neo4jConnectionError")

\* Lines 116-128: Neo4jBackupRestore(raise_on_error).  The driver object
\* exists once GraphDatabase.driver returned (line 144), that is unless the
\* password is missing.
Connect ==
  /\ pc = "construct"
  /\ LET outcome == _connect(engine.env, engine.raise_on_error)
     IN  /\ engine' = [engine EXCEPT !.outcome = outcome,
                                      !.driver = IF engine.env = "no password"
                                                 THEN "none" ELSE "open"]
         /\ pc' = IF outcome = "connected" THEN "start" ELSE "not constructed"
         \* lines 144-145: one attempt, unless get_neo4j_auth raised before it
         /\ statements' = IF engine.env = "no password" THEN statements
                          ELSE Append(statements, Stmt("connect", outcome = "connected"))
  /\ UNCHANGED <<fs, backup_file, temp_dirs, tmp, json_file, backup_data, result,
                 db_nodes, db_rels, next_id, id_mapping, nodes_by_labels, rels_by_type,
                 grp, off, item, restored_rels, printed, spliced, fails,
                 target0, log, source, created, stdin, asked, disk_dirs, call>>
  /\ UNCHANGED procs

\* The callers of this repository (restore_command and the other commands of
\* neo4j_cli.py, main() of neo4j_backup_restore.py) all write
\* Neo4jBackupRestore(), raise_on_error left at its default False; a library
\* user may pass True.
CallerFlags == {FALSE, TRUE}

\* restore_command: the engine is constructed in any surroundings, then
\* restore_backup runs on a well-formed archive and close() follows.
InitConnect ==
  \E a \in {GoodArchive, Archive(<<>>, <<>>, NoStats)}, pre \in BOOLEAN :
    /\ Surroundings(OneFile("backup.json", ".json", JsonText(a)), "backup.json",
                    IF pre THEN PreNodes ELSE {}, IF pre THEN PreRels ELSE <<>>,
                    "construct", [nodes |-> {}, rels |-> <<>>], NoLedger)
    /\ stdin \in IF pre THEN {Typed("yes"), Typed("no")} ELSE {NoTerminal}
    /\ call = NoCall
    /\ procs = NoProcs
    /\ \E env \in Envs, flag \in CallerFlags :
         engine = [driver |-> "none", raise_on_error |-> flag,
                   outcome |-> "constructing", env |-> env]

NextConnect ==
  \/ Connect
  \/ RestoreNext
  \/ Close

SpecConnect == InitConnect /\ [][NextConnect]_vars

\* C19: a construction that fails ends with the typed error (the
\* configuration error for a missing password, the connection error
\* otherwise) and never with the end of the process.
C19_TypedErrorNeverExit ==
  pc = "not constructed" =>
    /\ engine.outcome # "SystemExit"
    /\ engine.outcome = IF engine.env = "no password"
                        THEN "Neo4jConfigError" ELSE "Neo4jConnectionError"

\* ---------------------------------------------------------------------------
\* The functions on identifiers and the compression ratio (C17, C18, C20).

\* utils.py lines 119-128: validate_cypher_identifier, the same pattern
\* behind a test for the empty string.
validate_cypher_identifier(identifier) ==
  identifier # <<>> /\ PatternMatch(identifier)

\* A sanitizer that leaves a leading digit as it is.
sanitize_keeping_digit(identifier, default) ==
  IF identifier = <<>> THEN default
  ELSE [i \in 1..Len(identifier) |->
          IF identifier[i] \in IdentChars THEN identifier[i] ELSE "_"]

\* utils.py lines 131-152: sanitize_cypher_identifier.  An empty identifier
\* gives the default as it is; otherwise every character outside
\* [a-zA-Z0-9_] becomes "_" and a leading digit gets "_" in front.
sanitize_cypher_identifier(identifier, default) ==
  IF identifier = <<>> THEN default
  ELSE LET sub == [i \in 1..Len(identifier) |->
                     IF identifier[i] \in IdentChars THEN identifier[i] ELSE "_"]
           sanitized == IF Len(sub) > 0 /\ sub[1] \in Digits
                        THEN <<"_">> \o sub ELSE sub
       IN  IF sanitized = <<>> THEN default ELSE sanitized

\* What a computation gives: an exception's name or a value.
Computed(fault, value) == [fault |-> fault, value |-> value]

\* (1 - zip_size / file_size) * 100, in whole percents.
Ratio(file_size, zip_size) == 100 - (100 * zip_size) \div file_size

\* _save_backup_files of src/backend/neo4j_backup_restore.py, lines 370-374:
\* the ratio is computed only when file_size > 0.
compression(file_size, zip_size) ==
  IF file_size > 0 THEN Computed("", Ratio(file_size, zip_size))
  ELSE Computed("", 0)

\* create_backup of src/neo4j_backup_restore.py, line 195: the division is
\* not guarded.
compression_of_script(file_size, zip_size) ==
  IF file_size = 0 THEN Computed("ZeroDivisionError", 0)
  ELSE Computed("", Ratio(file_size, zip_size))

Validators == {"validate_cypher_label", "validate_cypher_rel_type",
               "validate_cypher_identifier"}
Sanitizers == {"sanitize_label", "sanitize_cypher_identifier"}
Compressions == {"compression", "compression_of_script"}

\* The sizes st_size may report, in bytes.
MaxSize == 3

\* The strings given to the functions.
IdentStrings == SeqsUpTo(LabelChars, MaxStrLen)

\* validate_*(arg) is called.
ApplyValidate ==
  /\ pc = "call"
  /\ call.fn \in Validators
  /\ call.times = 0
  /\ call' = [call EXCEPT
               !.times = 1,
               !.ok = CASE call.fn = "validate_cypher_label" ->
                             validate_cypher_label(call.arg)
                        [] call.fn = "validate_cypher_rel_type" ->
                             validate_cypher_rel_type(call.arg)
                        [] OTHER -> validate_cypher_identifier(call.arg)]
  /\ UNCHANGED <<fs, backup_file, temp_dirs, tmp, json_file, backup_data, pc, result,
                 db_nodes, db_rels, next_id, id_mapping, nodes_by_labels, rels_by_type,
                 grp, off, item, restored_rels, printed, spliced, statements, fails,
                 target0, log, source, created, stdin, engine, asked, disk_dirs>>
  /\ UNCHANGED procs

\* sanitize_*(arg, default) is called, and then called on its own result.
SanitizeBy(fn, text, default) ==
  IF fn = "sanitize_label" THEN sanitize_label(text)
  ELSE sanitize_cypher_identifier(text, default)

ApplySanitize ==
  /\ pc = "call"
  /\ call.fn \in Sanitizers
  /\ call.times < 2
  /\ call' = IF call.times = 0
             THEN [call EXCEPT !.times = 1,
                               !.out = SanitizeBy(call.fn, call.arg, call.default)]
             ELSE [call EXCEPT !.times = 2,
                               !.again = SanitizeBy(call.fn, call.out, call.default)]
  /\ UNCHANGED <<fs, backup_file, temp_dirs, tmp, json_file, backup_data, pc, result,
                 db_nodes, db_rels, next_id, id_mapping, nodes_by_labels, rels_by_type,
                 grp, off, item, restored_rels, printed, spliced, statements, fails,
                 target0, log, source, created, stdin, engine, asked, disk_dirs>>
  /\ UNCHANGED procs

\* The compression ratio is computed from the two sizes.
ApplyCompression ==
  /\ pc = "call"
  /\ call.fn \in Compressions
  /\ call.times = 0
  /\ LET c == IF call.fn = "compression"
              THEN compression(call.file_size, call.zip_size)
              ELSE compression_of_script(call.file_size, call.zip_size)
     IN  call' = [call EXCEPT !.times = 1, !.fault = c.fault, !.value = c.value]
  /\ UNCHANGED <<fs, backup_file, temp_dirs, tmp, json_file, backup_data, pc, result,
                 db_nodes, db_rels, next_id, id_mapping, nodes_by_labels, rels_by_type,
                 grp, off, item, restored_rels, printed, spliced, statements, fails,
                 target0, log, source, created, stdin, engine, asked, disk_dirs>>
  /\ UNCHANGED procs

\* The calls: a validator on any string, sanitize_label on any string (its
\* default is 'Node'), sanitize_cypher_identifier on any string with any
\* default, a compression on any two sizes.
Calls ==
  {Call(fn, arg, <<>>, 0, 0) : fn \in Validators, arg \in IdentStrings}
  \cup {Call("sanitize_label", arg, NodeStr, 0, 0) : arg \in IdentStrings}
  \cup {Call("sanitize_cypher_identifier", arg, default, 0, 0) :
          arg \in IdentStrings, default \in IdentStrings \cup {NodeStr}}
  \cup {Call(fn, <<>>, <<>>, file_size, zip_size) :
          fn \in Compressions, file_size \in 0..MaxSize, zip_size \in 0..MaxSize}

InitCalls ==
  /\ Surroundings([q \in Paths |-> NoFile], "backup.json", {}, <<>>, "call",
                  [nodes |-> {}, rels |-> <<>>], NoLedger)
  /\ stdin = NoTerminal
  /\ engine = Connected
  /\ call \in Calls
  /\ procs = NoProcs

NextCalls ==
  \/ ApplyValidate
  \/ ApplySanitize
  \/ ApplyCompression

SpecCalls == InitCalls /\ [][NextCalls]_vars

\* C17: a validator returns true exactly on the strings of the identifier
\* grammar: non-empty, a letter or underscore first, then letters, digits and
\* underscores only (so never with a blank or a newline).
C17_ValidateIffGrammar ==
  (call.fn \in Validators /\ call.times = 1) =>
    (call.ok <=> MatchesGrammar(call.arg))

\* C18: sanitizing the result of a sanitization, with the same default,
\* gives that result again.
C18_SanitizeIdempotent ==
  (call.fn \in Sanitizers /\ call.times = 2) => call.again = call.out

RelOf(x) == ArchiveRels[db_rels[x].props - 10]

\* The sanitized form of a type: the type itself when it is an identifier of
\* the grammar, sanitize_label of it otherwise.
SanitizedType(type) == IF MatchesGrammar(type) THEN type ELSE sanitize_label(type)

\* Every relationship this run created runs from the node the map gives for
\* its record's source to the node the map gives for its record's target.
EndpointsFollowMap ==
  \A x \in RelsCreated :
    /\ RelOf(x).source \in DOMAIN id_mapping
    /\ RelOf(x).target \in DOMAIN id_mapping
    /\ db_rels[x].start = id_mapping[RelOf(x).source]
    /\ db_rels[x].end = id_mapping[RelOf(x).target]

\* C21: every relationship the restore created, by a batch statement or by
\* the statement for one item, runs from IdentifierMap[r.source] to
\* IdentifierMap[r.target] and carries r's sanitized type and r's properties.
C21_RelsFollowMapAndType ==
  /\ EndpointsFollowMap
  /\ \A x \in RelsCreated :
       /\ db_rels[x].type = SanitizedType(RelOf(x).type)
       /\ db_rels[x].props = RelOf(x).props

\* ---------------------------------------------------------------------------
\* The fallback from a batch to its items (C22).

\* The number of statements (op, ok) sent so far.
Count(op, ok) == Cardinality({k \in 1..Len(statements) : statements[k] = Stmt(op, ok)})

\* _restore_relations_batch has returned.
RelPhaseDone == printed.rels # None

\* The relationship records of the archive that entered a group.
GroupedRels == (1..Len(ArchiveRels)) \ DanglingRels

\* C22: a failing creation statement never ends the restore; once the node
\* phase is over every node record was created or had its own statement
\* fail, and none was created twice; the relationship phase then runs, and
\* once it is over the same holds of every relationship whose endpoints are
\* mapped.
EveryItemAttemptedOnce ==
  /\ NodePhaseDone =>
       /\ Cardinality(NodesCreated) + Count("node", FALSE) = Len(ArchiveNodes)
       /\ \A a, b \in NodesCreated : a.props = b.props => a = b
  /\ RelPhaseDone =>
       /\ Cardinality(RelsCreated) + Count("rel", FALSE) = Cardinality(GroupedRels)
       /\ \A x, y \in RelsCreated : db_rels[x].props = db_rels[y].props => x = y
FailedStatementGoesOn ==
  (Len(statements') > Len(statements) /\ ~statements'[Len(statements')].ok)
    => pc' # "returned"
NodeCreated(k) == \E n \in NodesCreated : n.props = k

\* restore_backup accepted the archive: it parsed and passed the schema check.
Accepted ==
  /\ result.message \notin {"file not found", "corrupt zip", "zlib.error",
                            "no json in zip", "invalid json", "TypeError",
                            "invalid backup"}
  /\ backup_data.t = "dict"
  /\ _validate_backup_schema(backup_data) = "true"

\* C23: when restore_backup has ended on an accepted archive and no database
\* statement failed, every well-formed node record was created, and the
\* restore was not aborted.
C23_MalformedRecordDoesNotBlock ==
  (pc = "returned" /\ Accepted /\ fails = 0) =>
    /\ result.value = "true"
    /\ \A k \in 1..Len(ArchiveNodes) : ~NodeRaises(ArchiveNodes[k]) => NodeCreated(k)

\* ---------------------------------------------------------------------------
\* The order of the steps of a restore (C24).

\* The step a statement belongs to: the clear, the nodes, the relationships.
StepOf(op) ==
  CASE op = "clear" -> 0
    [] op \in {"nodes_batch", "node"} -> 1
    [] OTHER -> 2

\* The statements sent so far are in the order clear, nodes, relationships.
StatementsInOrder ==
  \A i, j \in 1..Len(statements) :
    i < j => StepOf(statements[i].op) <= StepOf(statements[j].op)

\* Nothing is created before the check of the target has finished, the
\* relationships are grouped and created only after the node phase is over,
\* and the verification starts only after the relationship phase is over.
StepsInOrder ==
  /\ pc \in {"start", "load", "prepare"} =>
       /\ statements = <<>>
       /\ NodesCreated = {}
       /\ RelsCreated = {}
  /\ pc \in {"rels_batch", "rels_item"} => NodePhaseDone
  /\ RelPhaseDone => NodePhaseDone
  /\ pc = "verify" => RelPhaseDone
  /\ result.value = "true" => RelPhaseDone
  /\ StatementsInOrder

\* The verification and the end send no statement and create nothing.
NothingAfterVerify ==
  pc \in {"verify", "returned"} =>
    /\ statements' = statements
    /\ db_nodes' = db_nodes
    /\ db_rels' = db_rels

\* C24: a restore checks the target (and clears it when confirmed), then
\* creates the nodes, then the relationships, then verifies: no node before
\* the check has finished, no relationship statement before the last node
\* statement, the verification after every creation statement.
C24_StepsInFixedOrder ==
  []StepsInOrder /\ [][NothingAfterVerify]_vars

\* A run that cleared the target, created a node, then a relationship, and
\* was verified.
C24_Witness ==
  /\ pc = "returned"
  /\ result.value = "true"
  /\ Count("clear", TRUE) = 1
  /\ Count("nodes_batch", TRUE) >= 1
  /\ Count("rels_batch", TRUE) >= 1
  /\ RelsCreated # {}

\* ---------------------------------------------------------------------------
\* Unsafe entries beside a valid data file (C26).

Members == TheFile.c.members

\* The bundle holds an entry whose resolved location is outside the
\* extraction directory, and a valid data file at its top level; none of its
\* entries has damaged bytes.
UnsafeBesideValid ==
  /\ IsBundle
  /\ \E k \in 1..Len(Members) : ~TrulyInside(Members[k])
  /\ \E k \in 1..Len(Members) :
       /\ TrulyInside(Members[k])
       /\ Len(Members[k].comps) = 1
       /\ EndsWithJson(Members[k].comps)
       /\ Members[k].c = Good
  /\ \A k \in 1..Len(Members) : Members[k].c.t # "damaged"

\* C26: on such a bundle the extraction does not abort, no unsafe entry is
\* extracted, the file handed to the parser comes from an entry inside the
\* directory, and every extracted entry has the extension .json.
C26_UnsafeEntriesSkipped ==
  (UnsafeBesideValid /\ pc # "start") =>
    /\ result.message \notin {"corrupt zip", "zlib.error", "no json in zip"}
    /\ \A q \in DOMAIN tmp : TrulyInside(Members[tmp[q].src])
    /\ TrulyInside(Members[json_file.src])
    /\ \A q \in DOMAIN tmp : EndsWithJson(q)

\* ---------------------------------------------------------------------------
\* The bounded fallback and the end of the restore (C28).

\* The number of batches the groups split into.
RECURSIVE NumBatches(_)
NumBatches(groups) ==
  IF groups = <<>> THEN 0
  ELSE (Len(Head(groups).items) + BatchSize - 1) \div BatchSize + NumBatches(Tail(groups))

\* The batches before the one at (grp, off).
BatchesBefore(groups) == NumBatches(SubSeq(groups, 1, grp - 1)) + off \div BatchSize

Sent(op) == Count(op, TRUE) + Count(op, FALSE)

\* Every batch is sent once; an item is sent on its own only as part of the
\* fallback of a batch that failed, once; so no item is sent more than twice.
BoundedSubmissions ==
  /\ Sent("nodes_batch") <= NumBatches(nodes_by_labels)
  /\ pc = "nodes_batch" => Sent("nodes_batch") = BatchesBefore(nodes_by_labels)
  /\ pc = "nodes_item" =>
       /\ Sent("nodes_batch") = BatchesBefore(nodes_by_labels) + 1
       /\ Sent("node") <= BatchSize * (Count("nodes_batch", FALSE) - 1) + item - 1
  /\ Sent("node") <= BatchSize * Count("nodes_batch", FALSE)
  /\ Sent("node") <= Len(ArchiveNodes)
  /\ Sent("rels_batch") <= NumBatches(rels_by_type)
  /\ pc = "rels_batch" => Sent("rels_batch") = BatchesBefore(rels_by_type)
  /\ pc = "rels_item" =>
       /\ Sent("rels_batch") = BatchesBefore(rels_by_type) + 1
       /\ Sent("rel") <= BatchSize * (Count("rels_batch", FALSE) - 1) + item - 1
  /\ Sent("rel") <= BatchSize * Count("rels_batch", FALSE)
  /\ Sent("rel") <= Len(ArchiveRels)
  /\ Len(statements) <= 1 + 2 * (Len(ArchiveNodes) + Len(ArchiveRels))

\* Archives as create_backup writes them: the k-th node carries the old
\* identifier k.  The target is empty.
LiveArchives ==
  {a \in RestoreArchives :
     \A k \in 1..Len(a.nodes.v) : a.nodes.v[k].id = ((k - 1) % Cardinality(OldIds)) + 1}

InitLive ==
  \E a \in LiveArchives :
    /\ RestoreCalled(OneFile("backup.json", ".json", JsonText(a)), "backup.json", {}, <<>>)
    /\ stdin = NoTerminal

\* The restore runs without pause: a step that can be taken is taken.
SpecLive == InitLive /\ [][Next]_vars /\ WF_vars(Next)

\* C28: no item is sent to the database more than twice (once in a batch,
\* once alone in the fallback), and every restore reaches its end, whatever
\* statements fail.
C28_BoundedFallbackAndEnd ==
  []BoundedSubmissions /\ <>(pc = "returned")

\* A batch of nodes and a batch of relationships both failed, their items
\* were sent one by one, and the restore ended.
C28_Witness ==
  /\ pc = "returned"
  /\ Count("nodes_batch", FALSE) = 1
  /\ Count("rels_batch", FALSE) = 1
  /\ Sent("node") = 2
  /\ Sent("rel") >= 1

\* ---------------------------------------------------------------------------
\* The batches of nodes (C30).

\* Label lists in either order, and with a label written twice.
GroupLabels ==
  {<<>>, <<<<"A">>>>, <<<<"B">>>>, <<<<"A">>, <<"B">>>>, <<<<"B">>, <<"A">>>>,
   <<<<"A">>, <<"A">>>>}

\* Archives of up to MaxNodes + 1 nodes, so that a group of BatchSize + 1
\* nodes splits into two batches; at most one relationship.
GroupArchives ==
  {Archive(WithProps([k \in 1..Len(ls) |-> NodeRec(k, ls[k], 0)], 0),
           WithProps(rs, 10), NoStats) :
     ls \in SeqsUpTo(GroupLabels, MaxNodes + 1),
     rs \in {<<>>, <<RelRec(1, 1, <<"R">>, 0)>>}}

InitGroups ==
  \E a \in GroupArchives :
    /\ RestoreCalled(OneFile("backup.json", ".json", JsonText(a)), "backup.json", {}, <<>>)
    /\ stdin = NoTerminal

SpecGroups == InitGroups /\ [][Next]_vars

\* The nodes have been grouped.
Grouped == pc \in {"nodes_batch", "nodes_item"}

\* The sanitized label set of the k-th node of the archive.
LabelSet(k) ==
  {safe_label(ArchiveNodes[k].labels[x]) : x \in 1..Len(ArchiveNodes[k].labels)}

\* The groups that hold the k-th node of the archive (its property token is k).
GroupsOf(k) ==
  {g \in 1..Len(nodes_by_labels) :
     \E i \in 1..Len(nodes_by_labels[g].items) : nodes_by_labels[g].items[i].props = k}

\* The offsets of the batches of a group: range(0, len(items), batch_size).
Offsets(items) == {o \in 0..(Len(items) - 1) : o % BatchSize = 0}

\* The batches of a group, one after the other.
RECURSIVE Batches(_, _)
Batches(items, o) ==
  IF o >= Len(items) THEN <<>> ELSE BatchOf(items, o) \o Batches(items, o + BatchSize)

InExactlyOneBatch ==
  /\ \A k \in 1..Len(ArchiveNodes) : Cardinality(GroupsOf(k)) = 1
  /\ \A g \in 1..Len(nodes_by_labels) :
       LET items == nodes_by_labels[g].items
       IN  /\ \A i, j \in 1..Len(items) : items[i].props = items[j].props => i = j
           /\ Batches(items, 0) = items

OneLabelSetPerGroup ==
  \A j, k \in 1..Len(ArchiveNodes) : GroupsOf(j) = GroupsOf(k) => LabelSet(j) = LabelSet(k)

EqualSetsSameGroup ==
  \A j, k \in 1..Len(ArchiveNodes) : LabelSet(j) = LabelSet(k) => GroupsOf(j) = GroupsOf(k)

BatchWithinSize ==
  \A g \in 1..Len(nodes_by_labels) :
    \A o \in Offsets(nodes_by_labels[g].items) :
      Len(BatchOf(nodes_by_labels[g].items, o)) \in 1..BatchSize

ArchiveOrderKept ==
  \A g \in 1..Len(nodes_by_labels) :
    LET items == nodes_by_labels[g].items
    IN  \A i, j \in 1..Len(items) : i < j => items[i].props < items[j].props

\* C30: every node of the archive is in exactly one batch; the nodes of a
\* group have one sanitized label set, and nodes whose label sets are equal
\* as sets are in the same group; no batch holds more than the batch size;
\* a group keeps the archive order.
C30_NodeBatching ==
  Grouped =>
    /\ InExactlyOneBatch
    /\ OneLabelSetPerGroup
    /\ EqualSetsSameGroup
    /\ BatchWithinSize
    /\ ArchiveOrderKept

\* ---------------------------------------------------------------------------
\* The root-level engine, src/neo4j_backup_restore.py: its constructor and
\* its restore_backup.  (src/backend/restore_backup.py extracts a bundle in
\* the same way, lines 48-61, and clears the target with two separate
\* queries, lines 87-101.)

\* What the constructor meets: a server that accepts the configured
\* password, one that accepts the empty password only, one that accepts the
\* password "neo4j" only, or no server.
ScriptEnvs == {"ok", "empty password", "default password", "unavailable"}

\* Lines 28, 36 and 42: the credentials the constructor tries, in this order.
credentials == <<"connect", "connect ''", "connect 'neo4j'">>
ConnectOps == {credentials[k] : k \in 1..Len(credentials)}

\* The server takes the credentials of that attempt.
Accepted_by(env, op) ==
  \/ env = "ok" /\ op = "connect"
  \/ env = "empty password" /\ op = "connect ''"
  \/ env = "default password" /\ op = "connect 'neo4j'"

\* Lines 26-46: every attempt up to the first that succeeds.
RECURSIVE attempts(_, _)
attempts(env, k) ==
  IF k > Len(credentials) THEN <<>>
  ELSE IF Accepted_by(env, credentials[k]) THEN <<Stmt(credentials[k], TRUE)>>
  ELSE <<Stmt(credentials[k], FALSE)>> \o attempts(env, k + 1)

\* Lines 26-46: __init__; sys.exit(1) after the third failure.
ScriptConstruct ==
  /\ pc = "s_construct"
  /\ LET tried == attempts(engine.env, 1)
         ok == tried[Len(tried)].ok
     IN  /\ statements' = statements \o tried
         /\ engine' = [engine EXCEPT !.outcome = IF ok THEN "connected" ELSE "SystemExit",
                                      !.driver = "open"]
         /\ pc' = IF ok THEN "s_start" ELSE "not constructed"
  /\ UNCHANGED <<fs, backup_file, temp_dirs, tmp, json_file, backup_data, result,
                 db_nodes, db_rels, next_id, id_mapping, nodes_by_labels, rels_by_type,
                 grp, off, item, restored_rels, printed, spliced, fails,
                 target0, log, source, created, stdin, asked, disk_dirs, call>>
  /\ UNCHANGED procs

\* zf.extractall(temp_dir): every member is written below the directory (a
\* leading "/" and ".." components are dropped from its name), over what the
\* directory already holds; a member whose bytes are damaged raises.
RECURSIVE extractall(_, _, _)
extractall(members, k, dir) ==
  IF k > Len(members) THEN dir
  ELSE LET m == members[k]
           p == ExtractTarget(m)
           e == [c |-> IF m.c.t = "damaged" THEN Garbage ELSE m.c, src |-> k]
           nxt == [q \in DOMAIN dir \cup {p} |-> IF q = p THEN e ELSE dir[q]]
       IN  IF m.c.t = "damaged" THEN nxt ELSE extractall(members, k + 1, nxt)

\* Lines 209-235: the existence test and the extraction into the directory
\* /tmp/neo4j_restore, which mkdir(exist_ok=True) takes as it is.  tmp is
\* that directory.  No exception is caught here.
ScriptOpen ==
  /\ pc = "s_start"
  /\ LET f == fs[backup_file]
     IN  IF f = NoFile
         THEN /\ Return("false", "file not found")
              /\ UNCHANGED <<tmp, json_file>>
         ELSE IF f.suffix # ".zip"
         THEN /\ json_file' = [c |-> f.c, src |-> 0]
              /\ pc' = "s_load"
              /\ UNCHANGED <<tmp, result>>
         ELSE IF f.c.t # "zip"
         THEN /\ Return("raised", "BadZipFile")
              /\ UNCHANGED <<tmp, json_file>>
         ELSE LET dir == extractall(f.c.members, 1, tmp)
              IN  /\ tmp' = dir
                  /\ IF \E k \in 1..Len(f.c.members) : f.c.members[k].c.t = "damaged"
                     THEN /\ Return("raised", "zlib.error")
                          /\ UNCHANGED json_file
                     ELSE IF GlobJson(dir) = {}
                     THEN /\ Return("false", "no json in zip")
                          /\ UNCHANGED json_file
                     ELSE \* json_files[0]: the directory order is not fixed
                          /\ \E q \in GlobJson(dir) : json_file' = dir[q]
                          /\ pc' = "s_load"
                          /\ UNCHANGED result
  /\ UNCHANGED <<fs, backup_file, temp_dirs, backup_data, db_nodes, db_rels, next_id,
                 id_mapping, nodes_by_labels, rels_by_type, grp, off, item,
                 restored_rels, printed, spliced, statements, fails, target0, log,
                 source, created, stdin, engine, asked, disk_dirs, call>>
  /\ UNCHANGED procs

\* Lines 237-248: json.load and the three .get; nothing is caught, no schema
\* is checked.
ScriptLoad ==
  /\ pc = "s_load"
  /\ IF json_file.c.t # "json"
     THEN /\ Return("raised", "JSONDecodeError")
          /\ UNCHANGED backup_data
     ELSE IF json_file.c.doc.t # "dict"
     THEN /\ Return("raised", "AttributeError")
          /\ UNCHANGED backup_data
     ELSE IF json_file.c.doc.nodes.t # "list" \/ json_file.c.doc.relations.t # "list"
     THEN \* len() of a number
          /\ Return("raised", "TypeError")
          /\ UNCHANGED backup_data
     ELSE /\ backup_data' = json_file.c.doc
          /\ pc' = "s_check"
          /\ UNCHANGED result
  /\ UNCHANGED <<fs, backup_file, temp_dirs, tmp, json_file, db_nodes, db_rels, next_id,
                 id_mapping, nodes_by_labels, rels_by_type, grp, off, item,
                 restored_rels, printed, spliced, statements, fails, target0, log,
                 source, created, stdin, engine, asked, disk_dirs, call>>
  /\ UNCHANGED procs

\* input(prompt): the line typed; EOFError at the end of the input.
plain_input(in) == IF in.outcome = "typed" THEN in.text ELSE "EOFError"

\* Lines 250-264: the two counts and the question.  An exception (a failed
\* count, EOFError) is caught at line 396 and False returned.
ScriptCheck ==
  /\ pc = "s_check"
  /\ \/ /\ fails < MaxDbFailures
        /\ fails' = fails + 1
        /\ Return("false", "error during restore")
        /\ UNCHANGED asked
     \/ /\ UNCHANGED fails
        /\ IF db_nodes # {} \/ db_rels # <<>>
           THEN LET confirm == plain_input(stdin)
                IN  /\ asked' = TRUE
                    /\ IF confirm = "EOFError"
                       THEN Return("false", "error during restore")
                       ELSE /\ pc' = IF lower(confirm) = "yes"
                                     THEN "s_clear_rels" ELSE "s_nodes"
                            /\ UNCHANGED result
           ELSE /\ pc' = "s_nodes"
                /\ UNCHANGED <<asked, result>>
  /\ UNCHANGED <<fs, backup_file, temp_dirs, tmp, json_file, backup_data, db_nodes,
                 db_rels, next_id, id_mapping, nodes_by_labels, rels_by_type, grp,
                 off, item, restored_rels, printed, spliced, statements, target0, log,
                 source, created, stdin, engine, disk_dirs, call>>
  /\ UNCHANGED procs

\* Lines 268-269: session.run("MATCH ()-[r]->() DELETE r"), a transaction of
\* its own, committed when the statement ends.
ScriptClearRels ==
  /\ pc = "s_clear_rels"
  /\ \/ /\ fails < MaxDbFailures
        /\ fails' = fails + 1
        /\ statements' = Append(statements, Stmt("delete_rels", FALSE))
        /\ Return("false", "error during restore")
        /\ UNCHANGED db_rels
     \/ /\ db_rels' = <<>>
        /\ statements' = Append(statements, Stmt("delete_rels", TRUE))
        /\ pc' = "s_clear_nodes"
        /\ UNCHANGED <<fails, result>>
  /\ UNCHANGED <<fs, backup_file, temp_dirs, tmp, json_file, backup_data, db_nodes,
                 next_id, id_mapping, nodes_by_labels, rels_by_type, grp, off, item,
                 restored_rels, printed, spliced, target0, log, source, created,
                 stdin, engine, asked, disk_dirs, call>>
  /\ UNCHANGED procs

\* Lines 272-273: session.run("MATCH (n) DELETE n"), a second transaction.
ScriptClearNodes ==
  /\ pc = "s_clear_nodes"
  /\ \/ /\ fails < MaxDbFailures
        /\ fails' = fails + 1
        /\ statements' = Append(statements, Stmt("delete_nodes", FALSE))
        /\ Return("false", "error during restore")
        /\ UNCHANGED db_nodes
     \/ /\ db_nodes' = {}
        /\ statements' = Append(statements, Stmt("delete_nodes", TRUE))
        /\ pc' = "s_nodes"
        /\ UNCHANGED <<fails, result>>
  /\ UNCHANGED <<fs, backup_file, temp_dirs, tmp, json_file, backup_data, db_rels,
                 next_id, id_mapping, nodes_by_labels, rels_by_type, grp, off, item,
                 restored_rels, printed, spliced, target0, log, source, created,
                 stdin, engine, asked, disk_dirs, call>>
  /\ UNCHANGED procs

\* node["labels"], node["properties"] and the join of the labels are
\* evaluated outside the inner try: KeyError, TypeError.
ScriptNodeRaises(node) ==
  \/ node.t # "dict"
  \/ "labels" \notin node.has
  \/ "properties" \notin node.has
  \/ \E k \in 1..Len(node.labels) : node.labels[k] = NonStr

\* Lines 276-323: one node, `CREATE (n:labels {props}) RETURN id(n)`, the
\* labels spliced as they are.  A failure of the statement is printed and
\* the loop goes on; node["id"] of a record without "id" raises KeyError.
ScriptNode ==
  /\ pc = "s_nodes"
  /\ LET nodes == backup_data.nodes.v
     IN  IF item > Len(nodes)
         THEN /\ pc' = "s_rels"
              /\ item' = 1
              /\ printed' = [printed EXCEPT !.nodes = Cardinality(DOMAIN id_mapping)]
              /\ UNCHANGED <<db_nodes, next_id, id_mapping, spliced, statements, fails,
                             result>>
         ELSE LET node == nodes[item]
              IN  IF ScriptNodeRaises(node)
                  THEN /\ Return("false", "error during restore")
                       /\ UNCHANGED <<db_nodes, next_id, id_mapping, spliced, statements,
                                      fails, item, printed>>
                  ELSE /\ spliced' = spliced \cup {node.labels[x] : x \in 1..Len(node.labels)}
                       /\ \/ /\ statements' = Append(statements, Stmt("node", TRUE))
                             /\ db_nodes' = db_nodes \cup
                                  {[id |-> next_id,
                                    labels |-> {CypherName(node.labels[x]) :
                                                  x \in 1..Len(node.labels)},
                                    props |-> node.props, origin |-> "restore"]}
                             /\ next_id' = next_id + 1
                             /\ IF node.id = None
                                THEN /\ Return("false", "error during restore")
                                     /\ UNCHANGED <<id_mapping, item>>
                                ELSE /\ id_mapping' =
                                          [o \in DOMAIN id_mapping \cup {node.id} |->
                                             IF o = node.id THEN next_id ELSE id_mapping[o]]
                                     /\ item' = item + 1
                                     /\ UNCHANGED <<pc, result>>
                             /\ UNCHANGED fails
                          \/ /\ fails < MaxDbFailures
                             /\ fails' = fails + 1
                             /\ statements' = Append(statements, Stmt("node", FALSE))
                             /\ IF node.id = None
                                THEN /\ Return("false", "error during restore")
                                     /\ UNCHANGED item
                                ELSE /\ item' = item + 1
                                     /\ UNCHANGED <<pc, result>>
                             /\ UNCHANGED <<db_nodes, next_id, id_mapping>>
                       /\ UNCHANGED printed
  /\ UNCHANGED <<fs, backup_file, temp_dirs, tmp, json_file, backup_data, db_rels,
                 nodes_by_labels, rels_by_type, grp, off, restored_rels, target0, log,
                 source, created, stdin, engine, asked, disk_dirs, call>>
  /\ UNCHANGED procs

\* Lines 325-372: one relationship, skipped when an end has no new
\* identifier, created between the two new identifiers otherwise.
ScriptRel ==
  /\ pc = "s_rels"
  /\ LET rels == backup_data.relations.v
     IN  IF item > Len(rels)
         THEN /\ pc' = "s_verify"
              /\ item' = 1
              /\ printed' = [printed EXCEPT !.rels = restored_rels]
              /\ UNCHANGED <<db_rels, restored_rels, spliced, statements, fails, result>>
         ELSE LET rel == rels[item]
              IN  IF rel.t # "dict"
                  THEN /\ Return("false", "error during restore")
                       /\ UNCHANGED <<db_rels, restored_rels, spliced, statements, fails,
                                      item, printed>>
                  ELSE IF Dangling(rel, id_mapping)
                  THEN /\ item' = item + 1
                       /\ UNCHANGED <<db_rels, restored_rels, spliced, statements, fails,
                                      pc, result, printed>>
                  ELSE /\ spliced' = spliced \cup {rel.type}
                       /\ item' = item + 1
                       /\ \/ /\ statements' = Append(statements, Stmt("rel", TRUE))
                             /\ db_rels' = db_rels \o
                                  CreatedRels(rel.type,
                                              <<[source_id |-> id_mapping[rel.source],
                                                 target_id |-> id_mapping[rel.target],
                                                 props |-> rel.props]>>, 1, db_nodes)
                             /\ restored_rels' = restored_rels + 1
                             /\ UNCHANGED fails
                          \/ /\ fails < MaxDbFailures
                             /\ fails' = fails + 1
                             /\ statements' = Append(statements, Stmt("rel", FALSE))
                             /\ UNCHANGED <<db_rels, restored_rels>>
                       /\ UNCHANGED <<pc, result, printed>>
  /\ UNCHANGED <<fs, backup_file, temp_dirs, tmp, json_file, backup_data, db_nodes,
                 next_id, id_mapping, nodes_by_labels, rels_by_type, grp, off, target0,
                 log, source, created, stdin, engine, asked, disk_dirs, call>>
  /\ UNCHANGED procs

\* Lines 374-403: the final counts and `return True`.
ScriptVerify ==
  /\ pc = "s_verify"
  /\ \/ /\ Return("true", "restored")
        /\ UNCHANGED fails
     \/ /\ fails < MaxDbFailures
        /\ fails' = fails + 1
        /\ Return("false", "error during restore")
  /\ UNCHANGED <<fs, backup_file, temp_dirs, tmp, json_file, backup_data, db_nodes,
                 db_rels, next_id, id_mapping, nodes_by_labels, rels_by_type, grp, off,
                 item, restored_rels, printed, spliced, statements, target0, log,
                 source, created, stdin, engine, asked, disk_dirs, call>>
  /\ UNCHANGED procs

\* The path of the second restore.
OlderZip == "older.zip"

\* restore_backup is called once more, on another bundle: its locals are
\* new, the target and the directory /tmp/neo4j_restore are what the first
\* call left.
ScriptCallAgain ==
  /\ pc = "returned"
  /\ backup_file # OlderZip
  /\ backup_file' = OlderZip
  /\ pc' = "s_start"
  /\ result' = [value |-> "none", message |-> ""]
  /\ json_file' = [c |-> Garbage, src |-> 0]
  /\ backup_data' = Archive(<<>>, <<>>, NoStats)
  /\ id_mapping' = EmptyMap
  /\ item' = 1
  /\ restored_rels' = 0
  /\ printed' = [nodes |-> None, rels |-> None]
  /\ target0' = [nodes |-> db_nodes, rels |-> db_rels]
  /\ UNCHANGED <<fs, temp_dirs, tmp, db_nodes, db_rels, next_id, nodes_by_labels,
                 rels_by_type, grp, off, spliced, statements, fails, log, source,
                 created, stdin, engine, asked, disk_dirs, call>>
  /\ UNCHANGED procs

\* The bundles of the two calls hold different archives under different
\* names, as backups taken at different times do.
OlderArchive == Archive(<<NodeRec(1, <<<<"B">>>>, 1)>>, <<>>, NoStats)
FirstFiles ==
  {File(".zip", ZipOf(<<Member(FALSE, << <<"g", ".json">> >>, Good)>>)),
   File(".zip", ZipOf(<<Member(FALSE, << <<"g", ".json">> >>, Damaged)>>)),
   File(".zip", ZipOf(<<>>)),
   File(".zip", Garbage)}
OlderFiles ==
  {File(".zip", ZipOf(<<Member(FALSE, << <<"h", ".json">> >>, JsonText(OlderArchive))>>)),
   File(".zip", ZipOf(<<Member(FALSE, << <<"g", ".json">> >>, JsonText(OlderArchive))>>)),
   NoFile}
\* An archive whose label and relationship type are no identifiers.
SplicedArchive ==
  Archive(<<NodeRec(1, <<<<"A", " ">>>>, 1), NodeRec(2, <<<<"A">>>>, 2)>>,
          <<RelRec(1, 2, <<"1">>, 11)>>, NoStats)
PlainFiles ==
  {File(".json", Good), File(".json", JsonText(SplicedArchive)), File(".json", Garbage),
   NoFile}

\* main(): the engine is constructed, then restore_backup runs on the path
\* given, and once more on an older bundle.
InitScript ==
  \E first \in FirstFiles, older \in OlderFiles, plain \in PlainFiles,
     path \in {"backup.zip", "backup.json"}, pre \in BOOLEAN :
    /\ Surroundings([q \in Paths |-> CASE q = "backup.zip" -> first
                                       [] q = OlderZip -> older
                                       [] q = "backup.json" -> plain
                                       [] OTHER -> NoFile],
                    path, IF pre THEN PreNodes ELSE {}, IF pre THEN PreRels ELSE <<>>,
                    "s_construct", [nodes |-> {}, rels |-> <<>>], NoLedger)
    /\ stdin \in {Typed("yes"), Typed("no"), NoTerminal}
    /\ call = NoCall
    /\ procs = NoProcs
    /\ \E env \in ScriptEnvs :
         engine = [driver |-> "none", raise_on_error |-> FALSE,
                   outcome |-> "constructing", env |-> env]

NextScript ==
  \/ ScriptConstruct
  \/ ScriptOpen
  \/ ScriptLoad
  \/ ScriptCheck
  \/ ScriptClearRels
  \/ ScriptClearNodes
  \/ ScriptNode
  \/ ScriptRel
  \/ ScriptVerify
  \/ ScriptCallAgain

SpecScript == InitScript /\ [][NextScript]_vars

\* ---------------------------------------------------------------------------
\* C25, C27, C29: the clearing, the extraction directory, the connection.

\* What is left of the target the call found.
OldNodes == db_nodes \cap target0.nodes
OldRels == SelectSeq(db_rels, LAMBDA r : \E k \in 1..Len(target0.rels) : target0.rels[k] = r)

\* C25: the clearing deletes the relationships and the nodes in one
\* transaction: in every state the target the call found is either whole or
\* gone, and a clearing that fails leaves it whole.
C25_ClearAtomic ==
  \/ OldNodes = target0.nodes /\ OldRels = target0.rels
  \/ OldNodes = {} /\ OldRels = <<>>

\* The entries of the bundle passed to the call.
BundleContents == {Members[k].c : k \in 1..Len(Members)}

\* C27: the extraction directory is empty when the extraction of a bundle
\* begins, and the data file a call parses is an entry of the bundle passed
\* to that call.
C27_FreshExtractionDirectory ==
  /\ (pc \in {"start", "s_start"} /\ TheFile.suffix = ".zip") => tmp = EmptyDir
  /\ (pc \in {"load", "s_load"} /\ TheFile.suffix = ".zip") => json_file.c \in BundleContents

\* C29: a connection attempt that failed is not followed by another attempt,
\* and the construction it belongs to does not end connected.
C29_NoConnectionRetry ==
  \A i \in 1..Len(statements) :
    (statements[i].op \in ConnectOps /\ ~statements[i].ok) =>
      /\ \A j \in (i + 1)..Len(statements) : statements[j].op \notin ConnectOps
      /\ engine.outcome # "connected"

\* ---------------------------------------------------------------------------
\* A restore beside the data the target already holds (C36).

\* The target was not empty, the question was asked and the answer was not yes.
ClearDeclined ==
  /\ target0.nodes # {}
  /\ asked
  /\ lower(input_with_timeout(stdin, "no")) # "yes"

\* The identifiers of the nodes this run created.
CreatedIds == {n.id : n \in NodesCreated}

\* C36: a restore whose clear was declined leaves every node and every
\* relationship the target had as it was, maps old identifiers only to nodes
\* this run created, and creates relationships only between such nodes.
C36_DeclinedClearKeepsTarget ==
  ClearDeclined =>
    /\ target0.nodes \subseteq db_nodes
    /\ SubSeq(db_rels, 1, Len(target0.rels)) = target0.rels
    /\ NodesCreated \cap target0.nodes = {}
    /\ CreatedIds \cap {n.id : n \in target0.nodes} = {}
    /\ \A o \in DOMAIN id_mapping : id_mapping[o] \in CreatedIds
    /\ \A x \in RelsCreated : db_rels[x].start \in CreatedIds /\ db_rels[x].end \in CreatedIds

\* The clear was declined, two nodes and a relationship between them were
\* created beside the old data, and the restore ended.
C36_Witness ==
  /\ ClearDeclined
  /\ pc = "returned"
  /\ result.value = "true"
  /\ Cardinality(NodesCreated) = 2
  /\ RelsCreated # {}

\* ---------------------------------------------------------------------------
\* The archive and its ledger entry (C37).

\* The data file create_backup wrote.
WrittenDoc == fs["backup.json"].c.doc

\* C37: the statistics of a written archive are the lengths of its two
\* lists; the ledger entry of the backup records the same two counts, and
\* its hash is the hash of the sidecar and the SHA-256 of the data file.
C37_ArchiveMatchesLedgerEntry ==
  /\ fs["backup.json"].c.t = "json" =>
       /\ WrittenDoc.stats.total_nodes = Len(WrittenDoc.nodes.v)
       /\ WrittenDoc.stats.total_relations = Len(WrittenDoc.relations.v)
  /\ \A k \in NewEntries :
       /\ fs["backup.json"].c.t = "json"
       /\ log.entries[k].nodes = Len(WrittenDoc.nodes.v)
       /\ log.entries[k].relations = Len(WrittenDoc.relations.v)
       /\ log.entries[k].nodes = WrittenDoc.stats.total_nodes
       /\ log.entries[k].relations = WrittenDoc.stats.total_relations
       /\ fs["backup.sha256"].c.t = "sha"
       /\ log.entries[k].hash = fs["backup.sha256"].c.hash[1]
       /\ log.entries[k].hash = Sha256(fs["backup.json"].c)

\* create_backup returned its paths for a graph of two nodes and a
\* relationship, after earlier backups.
C37_Witness ==
  /\ pc = "created"
  /\ created = "files"
  /\ Len(log.entries) > 1
  /\ Cardinality(NewEntries) = 1
  /\ Len(WrittenDoc.nodes.v) = 2
  /\ Len(WrittenDoc.relations.v) = 1

\* ---------------------------------------------------------------------------
\* The result of a sanitization is an identifier (C35).

\* The validator that belongs to a sanitizer, applied to s.
ValidateBy(fn, s) ==
  IF fn = "sanitize_label" THEN validate_cypher_label(s)
  ELSE validate_cypher_identifier(s)

\* C35: for every string and every default that satisfies the identifier
\* grammar, the result of the sanitization satisfies the grammar (non-empty,
\* a letter or underscore first, letters, digits and underscores only) and
\* the validator accepts it.
C35_SanitizedIsValid ==
  (call.fn \in Sanitizers /\ call.times >= 1 /\ MatchesGrammar(call.default)) =>
    /\ MatchesGrammar(call.out)
    /\ ValidateBy(call.fn, call.out)

\* A string that begins with a digit and ends with a newline was sanitized
\* with a default of the grammar.
C35_Witness ==
  /\ call.fn = "sanitize_cypher_identifier"
  /\ call.times >= 1
  /\ MatchesGrammar(call.default)
  /\ call.arg = <<"1", "\n">>
  /\ call.out = <<"_", "1", "_">>

\* ---------------------------------------------------------------------------
\* Two backups under one name (C31).

\* Lines 195-197 and 335-338: create_backup(tag) is called again with the tag
\* of the call before, within the same clock second: the timestamp
\* strftime("%Y%m%d_%H%M%S") is the same, so json_file, hash_file and
\* zip_file are the paths of the call before.  The graph may have gained a
\* node in between.
CreateAgain ==
  /\ pc = "created"
  /\ created = "files"
  /\ Cardinality(NewEntries) < 2
  /\ \E grown \in BOOLEAN :
       db_nodes' = IF grown
                   THEN db_nodes \cup {[id |-> Cardinality(db_nodes) + 1, labels |-> {},
                                        props |-> 0, origin |-> "pre"]}
                   ELSE db_nodes
  /\ pc' = "backup"
  /\ created' = ""
  /\ UNCHANGED <<fs, backup_file, temp_dirs, tmp, json_file, backup_data, result,
                 db_rels, next_id, id_mapping, nodes_by_labels, rels_by_type, grp, off,
                 item, restored_rels, printed, spliced, statements, fails, target0, log,
                 source, stdin, engine, asked, disk_dirs, call>>
  /\ UNCHANGED procs

\* create_backup is called on any source graph, no ledger file yet.
InitAgain ==
  \E ns \in SourceNodes :
    \E rs \in SourceRels(ns) :
      /\ Constructed([q \in Paths |-> NoFile], "backup.zip", ns, rs, "backup",
                     [nodes |-> ns, rels |-> rs])
      /\ stdin = NoTerminal

NextAgain ==
  \/ BackupExport
  \/ BackupSave
  \/ BackupLog
  \/ CreateAgain

SpecAgain == InitAgain /\ [][NextAgain]_vars

\* A file of a backup whose ledger entry is written is not changed by a step.
WrittenFilesKept ==
  NewEntries # {} =>
    \A q \in {"backup.json", "backup.sha256", "backup.zip"} : fs'[q] = fs[q]

\* The data file of every ledger entry hashes to the hash of the entry.
LedgerHashesHold ==
  \A k \in NewEntries : log.entries[k].hash = Sha256(fs["backup.json"].c)

\* C31: no call of create_backup changes a file written by an earlier call,
\* and every ledger entry keeps referring to a data file that hashes to the
\* hash it records.
C31_ArchiveImmutable ==
  [][WrittenFilesKept]_vars /\ []LedgerHashesHold

\* ---------------------------------------------------------------------------
\* clean_command of neo4j_cli.py (C38); src/neo4j_cli.py lines 94-139 is the
\* same code.

\* The arguments of the command.
CleanArgs == {<<>>, <<"--dry-run">>, <<"--all">>, <<"--dry-run", "--all">>}
Has(args, option) == \E k \in 1..Len(args) : args[k] = option

\* Lines 94-123: the counts, the preview, the question, and the engine that
\* is constructed for the safety backup.  A construction that fails ends the
\* process (raise_on_error is left False); EOFError leaves the command.
CleanCheck ==
  /\ pc = "clean"
  /\ IF Has(call.arg, "--dry-run") \/ ~Has(call.arg, "--all")
     THEN /\ pc' = "done"
          /\ UNCHANGED <<asked, engine, created>>
     ELSE /\ asked' = TRUE
          /\ LET confirm == plain_input(stdin)
                 outcome == _connect(engine.env, engine.raise_on_error)
             IN  IF confirm = "EOFError"
                 THEN /\ pc' = "done"
                      /\ created' = "raised"
                      /\ UNCHANGED engine
                 ELSE IF lower(confirm) # "yes"
                 THEN /\ pc' = "done"
                      /\ UNCHANGED <<engine, created>>
                 ELSE /\ engine' = [engine EXCEPT !.outcome = outcome, !.driver = "open"]
                      /\ pc' = IF outcome = "connected" THEN "backup" ELSE "done"
                      /\ created' = IF outcome = "connected" THEN created ELSE "exit"
  /\ UNCHANGED <<fs, backup_file, temp_dirs, tmp, json_file, backup_data, result,
                 db_nodes, db_rels, next_id, id_mapping, nodes_by_labels, rels_by_type,
                 grp, off, item, restored_rels, printed, spliced, statements, fails,
                 target0, log, source, stdin, disk_dirs, call>>
  /\ UNCHANGED procs

\* Lines 124-131: create_backup("pre_clean") has returned (its paths, or None
\* after a failed export; its result is not looked at), close() has run, and
\* the two queries are sent.  execute_query returns None when a query fails;
\* the deletion of nodes fails while a relationship is left.
CleanDelete ==
  /\ call.fn = "clean_command"
  /\ \/ pc = "created"
     \/ pc = "done" /\ created = "None"
  /\ \E rels_deleted \in BOOLEAN, nodes_deleted \in BOOLEAN :
       /\ db_rels' = IF rels_deleted THEN <<>> ELSE db_rels
       /\ nodes_deleted => db_rels' = <<>>
       /\ db_nodes' = IF nodes_deleted THEN {} ELSE db_nodes
       /\ statements' = statements \o <<Stmt("delete_rels", rels_deleted),
                                        Stmt("delete_nodes", nodes_deleted)>>
  /\ pc' = "cleaned"
  /\ UNCHANGED <<fs, backup_file, temp_dirs, tmp, json_file, backup_data, result,
                 next_id, id_mapping, nodes_by_labels, rels_by_type, grp, off, item,
                 restored_rels, printed, spliced, fails, target0, log, source, created,
                 stdin, engine, asked, disk_dirs, call>>
  /\ UNCHANGED procs

\* clean <args> is typed, the graph holding two nodes and a relationship.
InitClean ==
  \E args \in CleanArgs, ledger \in {NoLedger, Ledger("list", <<>>), Ledger("object", <<>>)} :
    LET ns == {[id |-> i, labels |-> {<<"A">>}, props |-> 0, origin |-> "pre"] : i \in OldIds}
        rs == <<[start |-> 1, end |-> 2, type |-> <<"R">>, props |-> 0, origin |-> "pre"]>>
    IN  /\ Surroundings([q \in Paths |-> NoFile], "backup.zip", ns, rs, "clean",
                        [nodes |-> ns, rels |-> rs], ledger)
        /\ stdin \in {Typed(l) : l \in Lines} \cup {NoTerminal}
        /\ call = Call("clean_command", args, <<>>, 0, 0)
        /\ procs = NoProcs
        /\ \E env \in Envs :
             engine = [driver |-> "none", raise_on_error |-> FALSE,
                       outcome |-> "constructing", env |-> env]

NextClean ==
  \/ CleanCheck
  \/ BackupExport
  \/ BackupSave
  \/ BackupLog
  \/ CleanDelete

SpecClean == InitClean /\ [][NextClean]_vars

\* A node or a relationship of the graph has been deleted.
SomethingDeleted == db_nodes # target0.nodes \/ db_rels # target0.rels

\* The safety backup was created: create_backup returned its paths, the
\* three files are written.
SafetyBackupCreated == created = "files" /\ SavedFiles

\* C38: clean deletes only after the answer yes and only after the safety
\* backup was created; with --dry-run nothing is deleted.
C38_CleanOnlyAfterBackup ==
  SomethingDeleted =>
    /\ ~Has(call.arg, "--dry-run")
    /\ stdin.outcome = "typed" /\ lower(stdin.text) = "yes"
    /\ SafetyBackupCreated

\* ---------------------------------------------------------------------------
\* The query text of the root-level restore (C32).

\* C32: every label and every relationship type of the archive that the
\* root-level restore_backup splices into query text is an identifier of the
\* grammar.
C32_ScriptSplicesIdentifiersOnly ==
  /\ \A s \in spliced : MatchesGrammar(s)
  /\ \A n \in NodesCreated : \A l \in n.labels : MatchesGrammar(l)
  /\ \A x \in RelsCreated : MatchesGrammar(db_rels[x].type)

\* ---------------------------------------------------------------------------
\* A restore interleaved with another invocation (C34).

\* Between two statements of the restore, another invocation (a restore, a
\* clean) clears the target (lines 553-560: every relationship and every
\* node is deleted, those this run created included) and creates one or two
\* nodes of its own.  The database gives a new node any identifier that no
\* node holds: one freed by the deletion, or a new one.
OtherInvocation ==
  /\ pc \notin {"start", "load", "returned"}
  /\ \A n \in db_nodes : n.origin # "other"
  /\ \E ids \in SUBSET (0..next_id) :
       /\ Cardinality(ids) \in 1..2
       /\ db_nodes' = {[id |-> i, labels |-> {<<"O">>}, props |-> 200 + i, origin |-> "other"] :
                         i \in ids}
       /\ next_id' = IF next_id \in ids THEN next_id + 1 ELSE next_id
  /\ db_rels' = <<>>
  /\ UNCHANGED <<fs, backup_file, temp_dirs, tmp, json_file, backup_data, pc, result,
                 id_mapping, nodes_by_labels, rels_by_type, grp, off, item,
                 restored_rels, printed, spliced, statements, fails, target0, log,
                 source, created, stdin, engine, asked, disk_dirs, call>>
  /\ UNCHANGED procs

NextInterleaved ==
  \/ RestoreNext
  \/ OtherInvocation

SpecInterleaved == InitLive /\ [][NextInterleaved]_vars

\* The node of the target with the identifier i was created by this run.
OwnNode(i) == \E n \in db_nodes : n.id = i /\ n.origin = "restore"

\* C34: every relationship this run created connects two nodes this run
\* created, also when another invocation cleared the target and created
\* nodes in between.
C34_RelsJoinOwnNodes ==
  \A x \in RelsCreated : OwnNode(db_rels[x].start) /\ OwnNode(db_rels[x].end)

\* ---------------------------------------------------------------------------
\* Two create_backup invocations on one backup directory (C33).

\* The ledger entry of invocation p (lines 779-790): each backup has its own
\* files.
EntryOf(p) ==
  [json_file |-> IF p = 1 THEN "first.json" ELSE "second.json",
   zip_file |-> IF p = 1 THEN "first.zip" ELSE "second.zip",
   hash |-> Sha256(JsonText(Archive(<<>>, <<>>, NoStats))),
   nodes |-> p, relations |-> 0]

\* An invocation inside _update_log: where it is, and the ledger it read.
Proc(position, log_data) == [pc |-> position, log_data |-> log_data]

\* Lines 792-798: the ledger file is read, if there is one.
ReadLog(p) ==
  /\ procs[p].pc = "read"
  /\ procs' = [procs EXCEPT ![p] = Proc("append", log)]
  /\ UNCHANGED <<fs, backup_file, temp_dirs, tmp, json_file, backup_data, pc, result,
                 db_nodes, db_rels, next_id, id_mapping, nodes_by_labels, rels_by_type,
                 grp, off, item, restored_rels, printed, spliced, statements, fails,
                 target0, log, source, created, stdin, engine, asked, disk_dirs, call>>

\* Lines 800-802: the entry is appended to what was read (AttributeError on
\* an object), and open(log_file, 'w') empties the file.
OpenLog(p) ==
  /\ procs[p].pc = "append"
  /\ IF _update_log(procs[p].log_data, EntryOf(p)) = Raised
     THEN /\ procs' = [procs EXCEPT ![p].pc = "raised"]
          /\ UNCHANGED log
     ELSE /\ procs' = [procs EXCEPT ![p].pc = "dump"]
          /\ log' = Ledger("corrupt", <<>>)
  /\ UNCHANGED <<fs, backup_file, temp_dirs, tmp, json_file, backup_data, pc, result,
                 db_nodes, db_rels, next_id, id_mapping, nodes_by_labels, rels_by_type,
                 grp, off, item, restored_rels, printed, spliced, statements, fails,
                 target0, source, created, stdin, engine, asked, disk_dirs, call>>

\* Line 803: json.dump writes the list the invocation holds.
DumpLog(p) ==
  /\ procs[p].pc = "dump"
  /\ log' = _update_log(procs[p].log_data, EntryOf(p))
  /\ procs' = [procs EXCEPT ![p].pc = "done"]
  /\ UNCHANGED <<fs, backup_file, temp_dirs, tmp, json_file, backup_data, pc, result,
                 db_nodes, db_rels, next_id, id_mapping, nodes_by_labels, rels_by_type,
                 grp, off, item, restored_rels, printed, spliced, statements, fails,
                 target0, source, created, stdin, engine, asked, disk_dirs, call>>

\* Two invocations have saved their files and reach _update_log, the ledger
\* being any ledger of earlier backups.
InitLedger ==
  \E ledger \in PriorLedgers :
    /\ Surroundings([q \in Paths |-> NoFile], "backup.zip", {}, <<>>, "update_log",
                    [nodes |-> {}, rels |-> <<>>], ledger)
    /\ stdin = NoTerminal
    /\ engine = Connected
    /\ call = NoCall
    /\ procs = <<Proc("read", NoLedger), Proc("read", NoLedger)>>

NextLedger ==
  \E p \in 1..2 :
    \/ ReadLog(p)
    \/ OpenLog(p)
    \/ DumpLog(p)

SpecLedger == InitLedger /\ [][NextLedger]_vars

\* The ledger holds the entry of invocation p.
Logged(p) == \E k \in 1..Len(log.entries) : log.entries[k] = EntryOf(p)

\* C33: when both invocations have completed, the ledger holds the entries
\* of both.
C33_NoLostEntry ==
  (procs[1].pc = "done" /\ procs[2].pc = "done") => (Logged(1) /\ Logged(2))

====
